---- MODULE Spec2Model ----
(***************************************************************************)
(* Model of the ServerGem backend: the WebSocket session gateway           *)
(* (backend/app.py), the per-session orchestrator                          *)
(* (backend/agents/orchestrator.py) and the services it drives.            *)
(*                                                                         *)
(* Spec       : the gateway - connection handlers, the two process-wide    *)
(*              registries, keep-alive tasks, the sweeper, and every       *)
(*              handler's process_message call, stage by stage.            *)
(* SpecStages : one clone-and-analyze or preflight run and the stage       *)
(*              events it emits to the progress notifier.                  *)
(* SpecDeploy : the deploy pipeline and its monitoring calls.              *)
(* SpecBroker : the orchestrator's LLM sends and the endpoints they reach. *)
(* SpecEnv    : two runs of the env-var upload and of its use at deploy    *)
(*              time, on inputs that differ in the secret values only.     *)
(* SpecHealth : the health verification that follows a deployment.         *)
(* SpecName   : the service name the deploy handler derives.               *)
(* SpecAnalyzer : one analyze_project call of the code analyzer.           *)
(* SpecCloud  : the container builds and Cloud Run deployments of          *)
(*              services/gcloud_service.py and the API calls they make.    *)
(* SpecHeartbeat : one keep-alive task and the binding it pings.           *)
(* SpecProgress : overlapping process_message calls on one orchestrator    *)
(*              and the progress messages they send.                       *)
(* SpecTurn   : one user message of process_message, part by part.         *)
(***************************************************************************)
EXTENDS Integers, Sequences, FiniteSets, TLC

(***************************************************************************)
(* Bounds of the model.                                                    *)
(***************************************************************************)
\* connection handlers (websocket_endpoint invocations) that may be opened
MaxConns == 3
\* successful clones (fresh working copies) the environment may produce
MaxClones == 2
\* chat messages the clients may send, over all connections
MaxMsgs == 2
\* progress callbacks a collaborator may make during one stage
MaxProgress == 2
\* deployments one orchestrator may be asked for
MaxDeploys == 2
\* LLM requests (user messages and tool responses) one orchestrator may send
MaxRequests == 3
\* build_image and deploy_to_cloudrun calls one GCloudService may receive
MaxCloudOps == 2
\* keep-alive frames one keep-alive task may try to send
MaxPings == 3
\* process_message calls one orchestrator may receive
MaxCalls == 2
\* parts in one model response
MaxParts == 3

Conns == 1..MaxConns
Sessions == {"s1", "s2"}
\* the session id a client may put in its init frame: the last connection may
\* belong to either session, the others share one
SessionChoices(c) == IF c < MaxConns THEN {"s1"} ELSE Sessions
NoSession == "none"
NoPath == 0

VARIABLES
    \* ---- gateway (app.py) ----
    hpc,                   \* handler position, per connection
    hsid,                  \* handler local: session_id
    hold,                  \* handler local: old_connection read at reconnect
    horch,                 \* handler local: user_orchestrator (instance id)
    wsState,               \* per websocket: new/open/srvclosed/lost/gone
    kaState,               \* keep-alive task created by handler c
    active_connections,    \* registry session -> [websocket, keep_alive_task]
    session_orchestrators, \* registry session -> orchestrator instance id
    orchs,                 \* orchestrator instances, by id (a sequence)
    nextPath,              \* working copies handed out so far
    msgCount,              \* chat messages taken from the sockets so far
    pfn,                   \* in-flight process call: routed function name
    pstage,                \* in-flight process call: pipeline stages done
    lastCall,              \* the process call that returned in the last step
    \* ---- one pipeline run and its stage events (SpecStages) ----
    spc,                   \* position in the run
    notifier,              \* whether a progress notifier was passed down
    events,                \* stage events emitted to the notifier, in order
    nprog,                 \* progress callbacks taken in the current stage
    checks,                \* preflight_checks local: checks
    errors,                \* preflight_checks local: errors is non-empty
    project_context,       \* the run's orchestrator: project_path, analysis
    dockerfile,            \* what generate_dockerfile gave for which analysis
    \* ---- the deploy pipeline and its monitoring calls (SpecDeploy) ----
    dpc,                   \* position in _handle_deploy_to_cloudrun
    ndep,                  \* deployments started so far (the deployment id)
    op_results,            \* per deployment: what build_image / deploy returned
    stage_metrics,         \* monitoring.record_stage calls, in order
    sealed,                \* monitoring.complete_deployment calls, in order
    announced,             \* per deployment: id of the deployment_started frame
    results,               \* per deployment: 'type' of the dict the handler returned
    deployment_url,        \* project_context: deployment whose URL is stored
    entries,               \* per deploy call: the path it saw and where it went
    calls,                 \* collaborator calls of the pipeline, in order
    \* ---- the orchestrator's LLM sends (SpecBroker) ----
    bpc,                   \* position in _send_with_fallback / the tool send
    use_vertex_ai,         \* OrchestratorAgent.use_vertex_ai
    gemini_api_key,        \* whether a backup credential was given
    chat_session,          \* endpoint of the chat session ("none": no session)
    attempt,               \* _retry_with_backoff: the loop variable
    requests,              \* per request: kind, endpoints contacted, fell back
    switched_at,           \* the request at which the broker switched (0: none)
    \* ---- env-var upload and its use by the deploy handler (SpecEnv) ----
    epc,                   \* "off", or "idle": uploads and deploys may happen
    session_env_vars,      \* per run: the uploaded entries, in insertion order
    emitted,               \* per run: frames sent and log lines printed
    \* ---- post-deployment health verification (SpecHealth) ----
    vpc,                   \* position in wait_for_service_ready and after it
    probe_log,             \* status code of every probe made (0: no response)
    health_success,        \* HealthCheckResult.success of the returned result
    health_waits,          \* the delays slept between the probes, in seconds
    health_result,         \* status_code and error of the returned result
    \* ---- service-name derivation of the deploy handler (SpecName) ----
    npc,                   \* "off", "start", "derived"
    repo_url,              \* last path segment of project_context['repo_url']
    service_name,          \* the derived service name
    \* ---- one analyze_project call (SpecAnalyzer) ----
    apc,                   \* position in analyze_project
    analyzer,              \* CodeAnalyzerAgent: use_vertex_ai, gemini_api_key
    file_structure,        \* manifests among file_structure['config_files']
    response,              \* what the last model call gave ("none": no call)
    analysis,              \* what analyze_project returned
    \* ---- GCloudService (SpecCloud) ----
    cpc,                   \* "off", or "ready" once the service is constructed
    services,              \* the Cloud Run services that exist in the project
    cloud_ops,             \* the build_image / deploy_to_cloudrun calls made
    \* ---- one keep-alive task (SpecHeartbeat) ----
    hbpc,                  \* position in keep_alive_task
    hb_binding,            \* the session's registered transport ("none": unbound)
    hb_pings,              \* outcome of every keep-alive send, in order
    \* ---- process_message calls on one orchestrator (SpecProgress) ----
    gpc,                   \* "off", or "on" once the orchestrator exists
    agent,                 \* the orchestrator: owner, session_id, safe_send
    pcalls,                \* per call: its arguments and how far it is
    progress_sent,         \* the progress messages that went out, in order
    \* ---- one user message (SpecTurn) ----
    tpc,                   \* position in process_message
    parts,                 \* parts of the model's response to the message
    executed,              \* function calls routed to a handler, in order
    tool_responses         \* function responses sent back to the model

gwVars == <<hpc, hsid, hold, horch, wsState, kaState, active_connections,
            session_orchestrators, orchs, nextPath, msgCount, pfn, pstage,
            lastCall>>

stVars == <<spc, notifier, events, nprog, checks, errors, project_context,
            dockerfile>>

dpVars == <<dpc, ndep, op_results, stage_metrics, sealed, announced, results,
            deployment_url, entries, calls>>

brVars == <<bpc, use_vertex_ai, gemini_api_key, chat_session, attempt,
            requests, switched_at>>

evVars == <<epc, session_env_vars, emitted>>

hcVars == <<vpc, probe_log, health_success, health_waits, health_result>>

snVars == <<npc, repo_url, service_name>>

anVars == <<apc, analyzer, file_structure, response, analysis>>

clVars == <<cpc, services, cloud_ops>>

hbVars == <<hbpc, hb_binding, hb_pings>>

pgVars == <<gpc, agent, pcalls, progress_sent>>

tnVars == <<tpc, parts, executed, tool_responses>>

xtVars == <<evVars, hcVars, snVars, anVars, clVars, hbVars, pgVars, tnVars>>

\* everything outside one of the small specifications
outsideEnv == <<gwVars, stVars, dpVars, brVars, hcVars, snVars, anVars, clVars,
               hbVars, pgVars, tnVars>>
outsideHealth == <<gwVars, stVars, dpVars, brVars, evVars, snVars, anVars, clVars,
               hbVars, pgVars, tnVars>>
outsideName == <<gwVars, stVars, dpVars, brVars, evVars, hcVars, anVars, clVars,
               hbVars, pgVars, tnVars>>
outsideAnalyzer == <<gwVars, stVars, dpVars, brVars, evVars, hcVars, snVars, clVars,
               hbVars, pgVars, tnVars>>
outsideCloud == <<gwVars, stVars, dpVars, brVars, evVars, hcVars, snVars, anVars,
                 hbVars, pgVars, tnVars>>
outsideHeartbeat == <<gwVars, stVars, dpVars, brVars, evVars, hcVars, snVars,
                     anVars, clVars, pgVars, tnVars>>
outsideProgress == <<gwVars, stVars, dpVars, brVars, evVars, hcVars, snVars,
                    anVars, clVars, hbVars, tnVars>>
outsideTurn == <<gwVars, stVars, dpVars, brVars, evVars, hcVars, snVars,
                anVars, clVars, hbVars, pgVars>>

auxVars == <<stVars, dpVars, brVars, xtVars>>

vars == <<gwVars, stVars, dpVars, brVars, xtVars>>

NoConn == [websocket |-> 0, keep_alive_task |-> 0]
NoCall == [conn |-> 0, fn |-> "none", outcome |-> "none", reply |-> "none",
           ws |-> 0]

\* `session_id in active_connections` / `session_id in session_orchestrators`
Registered(ac, s) == ac[s] # NoConn
HasOrchestrator(so, s) == so[s] # 0

\* OrchestratorAgent.__init__: a fresh instance with an empty project_context
NewOrchestrator == [project_path |-> NoPath, session_id |-> NoSession]

(***************************************************************************)
(* safe_send_json: the outcome of one send to a session, and what it does  *)
(* to the registry.  Every failure is a False return: "unknown_session",   *)
(* "not_connected" (client_state is not CONNECTED), "closed" (RuntimeError *)
(* 'close message has been sent', which also evicts the binding), "error"  *)
(* (any other exception).  "raise" would be an exception reaching the      *)
(* caller; the code catches them all.                                      *)
(***************************************************************************)
\* a send that would let the transport's exceptions through
SafeSendOutcomeRaising(ac, ws, s) ==
    IF ~Registered(ac, s) THEN "unknown_session"
    ELSE LET w == ac[s].websocket IN
         CASE ws[w] = "gone"      -> "not_connected"
           [] ws[w] = "srvclosed" -> "raise"
           [] ws[w] = "lost"      -> "raise"
           [] OTHER               -> "sent"

SafeSendOutcome(ac, ws, s) ==
    IF ~Registered(ac, s) THEN "unknown_session"
    ELSE LET w == ac[s].websocket IN
         CASE ws[w] = "gone"      -> "not_connected"
           [] ws[w] = "srvclosed" -> "closed"
           [] ws[w] = "lost"      -> "error"
           [] OTHER               -> "sent"

\* _send_progress_message (orchestrator.py 696-720): the send is wrapped in
\* try/except Exception, so whatever safe_send does comes back as a value
SendProgressOutcome(ac, ws, s) ==
    LET r == SafeSendOutcome(ac, ws, s) IN
    IF r = "raise" THEN "failed" ELSE r

Evict(ac, s) == [ac EXCEPT ![s] = NoConn]

\* a send that would drop the binding on every failed send
SafeSendRegistryAnyFailure(ac, ws, s) ==
    IF SafeSendOutcome(ac, ws, s) \in {"not_connected", "closed", "error"}
    THEN Evict(ac, s) ELSE ac

SafeSendRegistry(ac, ws, s) ==
    IF SafeSendOutcome(ac, ws, s) = "closed" THEN Evict(ac, s) ELSE ac

\* the websocket a frame sent to session s is delivered on (0: not delivered)
SafeSendTarget(ac, ws, s) ==
    IF SafeSendOutcome(ac, ws, s) = "sent" THEN ac[s].websocket ELSE 0

\* a lookup that would hand every connection a new instance
OrchestratorForFresh(so, os, s) == Len(os) + 1

\* websocket_endpoint, lines 304-323: reuse the session's orchestrator or
\* create one; the instance id the handler ends up holding
OrchestratorFor(so, os, s) ==
    IF HasOrchestrator(so, s) THEN so[s] ELSE Len(os) + 1

\* a sweeper that would reclaim every session without a transport binding
StaleSessionsUnbound(so, ac) ==
    {s \in Sessions : HasOrchestrator(so, s) /\ ~Registered(ac, s)}

\* cleanup_stale_sessions: the sessions the sweeper reclaims this round.  The
\* loop body is `pass`: nothing is ever appended to stale_sessions.
StaleSessions(so, ac) == {}

GwInit ==
    /\ hpc = [c \in Conns |-> "idle"]
    /\ hsid = [c \in Conns |-> NoSession]
    /\ hold = [c \in Conns |-> NoConn]
    /\ horch = [c \in Conns |-> 0]
    /\ wsState = [c \in Conns |-> "new"]
    /\ kaState = [c \in Conns |-> "none"]
    /\ active_connections = [s \in Sessions |-> NoConn]
    /\ session_orchestrators = [s \in Sessions |-> 0]
    /\ orchs = << >>
    /\ nextPath = 0
    /\ msgCount = 0
    /\ pfn = [c \in Conns |-> "none"]
    /\ pstage = [c \in Conns |-> 0]
    /\ lastCall = NoCall

\* OrchestratorAgent.__init__: project_context = {}
NoContext == [project_path |-> NoPath, analysis |-> FALSE,
              repo_url |-> "none", branch |-> "none"]

\* the project_context an earlier successful clone-and-analyze left
EarlierContext == [project_path |-> NoPath + 1, analysis |-> TRUE,
                   repo_url |-> "earlier", branch |-> "earlier"]

NoDockerfile == [kind |-> "none", language |-> "none", base |-> "none"]

NoChecks == [project_access |-> FALSE, artifact_registry |-> FALSE,
             cloud_build_api |-> FALSE, cloud_run_api |-> FALSE,
             storage_bucket |-> FALSE]

\* no pipeline run is being followed
StIdle ==
    /\ spc = "off"
    /\ notifier = FALSE
    /\ events = << >>
    /\ nprog = 0
    /\ checks = NoChecks
    /\ errors = FALSE
    /\ project_context = NoContext
    /\ dockerfile = NoDockerfile

\* no deployment is being followed
DpIdle ==
    /\ dpc = "off"
    /\ ndep = 0
    /\ op_results = << >>
    /\ stage_metrics = << >>
    /\ sealed = << >>
    /\ announced = << >>
    /\ results = << >>
    /\ deployment_url = 0
    /\ entries = << >>
    /\ calls = << >>

\* no LLM traffic is being followed
BrIdle ==
    /\ bpc = "off"
    /\ use_vertex_ai = TRUE
    /\ gemini_api_key = FALSE
    /\ chat_session = "none"
    /\ attempt = 0
    /\ requests = << >>
    /\ switched_at = 0

\* no env-var traffic is being followed
EvIdle ==
    /\ epc = "off"
    /\ session_env_vars = << >>
    /\ emitted = << >>

\* no health verification is being followed
NoHealthResult == [status_code |-> 0, error |-> "none"]

HcIdle ==
    /\ vpc = "off"
    /\ probe_log = << >>
    /\ health_success = FALSE
    /\ health_waits = << >>
    /\ health_result = NoHealthResult

\* no service name is being derived
SnIdle ==
    /\ npc = "off"
    /\ repo_url = << >>
    /\ service_name = << >>

NoAnalysis == [kind |-> "none", language |-> "none", warnings |-> FALSE]

AnIdle ==
    /\ apc = "off"
    /\ analyzer = [use_vertex_ai |-> FALSE, gemini_api_key |-> FALSE]
    /\ file_structure = {}
    /\ response = "none"
    /\ analysis = NoAnalysis

ClIdle ==
    /\ cpc = "off"
    /\ services = {}
    /\ cloud_ops = << >>

HbIdle ==
    /\ hbpc = "off"
    /\ hb_binding = "none"
    /\ hb_pings = << >>

NoAgent == [owner |-> NoSession, session_id |-> NoSession, safe_send |-> "none"]

PgIdle ==
    /\ gpc = "off"
    /\ agent = NoAgent
    /\ pcalls = << >>
    /\ progress_sent = << >>

TnIdle ==
    /\ tpc = "off"
    /\ parts = << >>
    /\ executed = << >>
    /\ tool_responses = << >>

\* the three smallest specifications at rest
RestIdle == HbIdle /\ PgIdle /\ TnIdle

XtIdle == EvIdle /\ HcIdle /\ SnIdle /\ AnIdle /\ ClIdle /\ RestIdle

Init == GwInit /\ StIdle /\ DpIdle /\ BrIdle /\ XtIdle

procVars == <<msgCount, pfn, pstage>>

\* websocket.accept(): the handler now waits for the init frame
Accept(c) ==
    /\ hpc[c] = "idle"
    /\ \A d \in Conns : d < c => hpc[d] # "idle"
    /\ hpc' = [hpc EXCEPT ![c] = "init"]
    /\ wsState' = [wsState EXCEPT ![c] = "open"]
    /\ UNCHANGED auxVars
    /\ UNCHANGED <<hsid, hold, horch, kaState, active_connections,
                   session_orchestrators, orchs, nextPath, procVars>>
    /\ lastCall' = NoCall

\* what can end the handshake: a first frame of another type, a frame that
\* is not a JSON object, no frame within 10 s, or a client that went away
FirstFrames == {"message", "malformed", "timeout", "disconnect"}

\* a handshake that would read the session id off any first frame
HandshakeSessionEager(type, s) ==
    IF type \in {"init", "message"} THEN s ELSE NoSession

\* lines 234-260: session_id starts as None and is read from the first
\* frame only after its type was found to be 'init'
HandshakeSession(type, s) ==
    IF type = "init" THEN s ELSE NoSession

\* The handshake fails (lines 250-260 and 505-517): the first frame is not
\* an init frame (close 1008), or receive_json or the 10 s wait raises into
\* the except branches.  The finally block then runs with the session id
\* the handler holds and with keep_alive = None.
InitFail(c, type, s) ==
    /\ hpc[c] = "init"
    /\ hpc' = [hpc EXCEPT ![c] = "done"]
    /\ wsState' = [wsState EXCEPT ![c] = "gone"]
    /\ LET sid == HandshakeSession(type, s) IN
         /\ hsid' = [hsid EXCEPT ![c] = sid]
         /\ active_connections' =
              IF sid # NoSession /\ Registered(active_connections, sid)
              THEN Evict(active_connections, sid)
              ELSE active_connections
    /\ UNCHANGED auxVars
    /\ UNCHANGED <<hold, horch, kaState, session_orchestrators, orchs,
                   nextPath, procVars>>
    /\ lastCall' = NoCall

\* an install that would leave a session's existing binding in place
InstallEffectKeepOld(c, s) ==
    /\ kaState' = [kaState EXCEPT ![c] = "running"]
    /\ active_connections' =
         IF Registered(active_connections, s) THEN active_connections
         ELSE [active_connections EXCEPT
                 ![s] = [websocket |-> c, keep_alive_task |-> c]]
    /\ LET o == OrchestratorFor(session_orchestrators, orchs, s) IN
         /\ horch' = [horch EXCEPT ![c] = o]
         /\ session_orchestrators' = [session_orchestrators EXCEPT ![s] = o]
         /\ orchs' = IF o > Len(orchs) THEN Append(orchs, NewOrchestrator) ELSE orchs

\* lines 292-326: create the keep-alive task, store the connection, look the
\* orchestrator up or create it.  No await in between.
InstallEffect(c, s) ==
    /\ kaState' = [kaState EXCEPT ![c] = "running"]
    /\ active_connections' =
         [active_connections EXCEPT ![s] = [websocket |-> c, keep_alive_task |-> c]]
    /\ LET o == OrchestratorFor(session_orchestrators, orchs, s) IN
         /\ horch' = [horch EXCEPT ![c] = o]
         /\ session_orchestrators' = [session_orchestrators EXCEPT ![s] = o]
         /\ orchs' = IF o > Len(orchs) THEN Append(orchs, NewOrchestrator) ELSE orchs

\* The init frame arrives.  A registered session id is a reconnect: the old
\* keep-alive task is cancelled and awaited (lines 272-284).  Otherwise the
\* connection is installed at once.
InitOk(c, s) ==
    /\ hpc[c] = "init"
    /\ wsState[c] = "open"
    /\ s \in SessionChoices(c)
    /\ hsid' = [hsid EXCEPT ![c] = s]
    /\ IF Registered(active_connections, s)
       THEN LET old == active_connections[s] IN
            /\ hold' = [hold EXCEPT ![c] = old]
            /\ IF kaState[old.keep_alive_task] # "done"
               THEN /\ kaState' = [kaState EXCEPT ![old.keep_alive_task] = "cancelling"]
                    /\ hpc' = [hpc EXCEPT ![c] = "await_ka"]
               ELSE /\ hpc' = [hpc EXCEPT ![c] = "close_old"]
                    /\ UNCHANGED kaState
            /\ UNCHANGED <<horch, active_connections, session_orchestrators, orchs>>
       ELSE /\ InstallEffect(c, s)
            /\ hpc' = [hpc EXCEPT ![c] = "hello"]
            /\ UNCHANGED hold
    /\ UNCHANGED auxVars
    /\ UNCHANGED <<wsState, nextPath, procVars>>
    /\ lastCall' = NoCall

\* `await old_keep_alive` returns once the cancelled task has finished
AwaitOldKeepAlive(c) ==
    /\ hpc[c] = "await_ka"
    /\ kaState[hold[c].keep_alive_task] = "done"
    /\ hpc' = [hpc EXCEPT ![c] = "close_old"]
    /\ UNCHANGED auxVars
    /\ UNCHANGED <<hsid, hold, horch, wsState, kaState, active_connections,
                   session_orchestrators, orchs, nextPath, procVars>>
    /\ lastCall' = NoCall

\* `await old_ws.close(code=1000)`; an error closing it is swallowed
CloseOld(c) ==
    /\ hpc[c] = "close_old"
    /\ LET w == hold[c].websocket IN
         wsState' = [wsState EXCEPT ![w] =
                        IF @ \in {"open", "lost"} THEN "srvclosed" ELSE @]
    /\ hpc' = [hpc EXCEPT ![c] = "install"]
    /\ UNCHANGED auxVars
    /\ UNCHANGED <<hsid, hold, horch, kaState, active_connections,
                   session_orchestrators, orchs, nextPath, procVars>>
    /\ lastCall' = NoCall

\* after the close returned: lines 292-326
Install(c) ==
    /\ hpc[c] = "install"
    /\ InstallEffect(c, hsid[c])
    /\ hpc' = [hpc EXCEPT ![c] = "hello"]
    /\ UNCHANGED auxVars
    /\ UNCHANGED <<hsid, hold, wsState, nextPath, procVars>>
    /\ lastCall' = NoCall

\* a send to the handler's session: the registry after it
SendTo(s) ==
    active_connections' = SafeSendRegistry(active_connections, wsState, s)

\* where the handler stands after a send of its own (not one made through
\* _send_progress_message): an exception out of safe_send_json would reach the
\* endpoint's outer `except Exception` and end the receive loop
AfterSend(s) ==
    IF SafeSendOutcome(active_connections, wsState, s) = "raise"
    THEN "cleanup" ELSE "recv"

\* the 'connected' frame (lines 328-333)
Hello(c) ==
    /\ hpc[c] = "hello"
    /\ SendTo(hsid[c])
    /\ hpc' = [hpc EXCEPT ![c] = AfterSend(hsid[c])]
    /\ UNCHANGED auxVars
    /\ UNCHANGED <<hsid, hold, horch, wsState, kaState,
                   session_orchestrators, orchs, nextPath, procVars>>
    /\ lastCall' = NoCall

(***************************************************************************)
(* process_message and the function handlers it routes to.  The LLM calls  *)
(* are synchronous (chat_session.send_message inside _retry_with_backoff), *)
(* so a model response, the routing of its function call and the code up   *)
(* to the next await form one step.                                        *)
(***************************************************************************)
FunctionNames == {"clone_and_analyze_repo", "deploy_to_cloudrun",
                  "list_user_repositories", "get_deployment_logs", "unknown"}

\* _handle_function_call, lines 738-774: look the name up in the handlers map
\* and call the handler with progress_notifier and progress_callback.  The
\* list and logs handlers do not take progress_notifier (TypeError).  Nothing
\* here looks at project_context.
RouteFunction(fn) ==
    CASE fn \in {"clone_and_analyze_repo", "deploy_to_cloudrun"} -> "pipeline"
      [] fn \in {"list_user_repositories", "get_deployment_logs"} ->
            "handler_type_error"
      [] OTHER -> "unknown_function"

\* an entry check that would not look at the disk
DeployEntryUnchecked(path, on_disk) ==
    IF path = NoPath THEN "no_project" ELSE "pipeline"

\* _handle_deploy_to_cloudrun, lines 838-858: the working copy comes from
\* the project context; without one, or with one that is gone from disk,
\* the handler returns an error
DeployEntry(path, on_disk) ==
    IF path = NoPath THEN "no_project"
    ELSE IF ~on_disk THEN "path_missing"
    ELSE "pipeline"

\* the awaited collaborator calls of the two pipelines, in order
Stages(fn) ==
    IF fn = "clone_and_analyze_repo"
    THEN <<"repo_clone", "code_analysis", "dockerfile_generation">>
    ELSE <<"preflight", "container_build", "cloud_deployment",
           "health_verification">>

\* how a collaborator call can fail
StageFailures(stage) ==
    CASE stage = "repo_clone"            -> {"clone_failed"}
      [] stage = "code_analysis"         -> {"analysis_failed"}
      [] stage = "dockerfile_generation" -> {"dockerfile_failed"}
      [] stage = "preflight"             -> {"preflight_failed", "invalid_dockerfile"}
      [] stage = "container_build"       -> {"build_failed"}
      [] stage = "cloud_deployment"      -> {"deploy_failed"}
      [] stage = "health_verification"   -> {"health_failed"}

PipelineDone(fn) ==
    IF fn = "clone_and_analyze_repo" THEN "analysis_done" ELSE "deployed"

\* handlers whose failure dicts would carry no 'type' of their own
FunctionResultTypeDefault(outcome) ==
    CASE outcome = "analysis_done" -> "analysis"
      [] outcome = "deployed"      -> "deployment_complete"
      [] OTHER                     -> "message"

\* the 'type' of the dict a function handler returns
FunctionResultType(outcome) ==
    CASE outcome = "analysis_done" -> "analysis"
      [] outcome = "deployed"      -> "deployment_complete"
      [] outcome = "health_failed" -> "warning"
      [] OTHER                     -> "error"

\* outcomes after which a function result goes back to the model
ToolOutcomes == {"unknown_function", "no_project", "path_missing",
                 "clone_failed", "analysis_failed", "dockerfile_failed",
                 "preflight_failed", "invalid_dockerfile", "build_failed",
                 "deploy_failed", "health_failed", "analysis_done", "deployed"}

\* the 'type' of the reply the client is sent (process_message 379-455, and
\* the endpoint's own error frame, 477-503)
ReplyType(outcome) ==
    CASE outcome = "text" -> "message"
      [] outcome \in {"llm_error", "handler_type_error", "chat_error",
                      "tool_error"} -> "error"
      [] OTHER -> FunctionResultType(outcome)

\* what the model, a collaborator call and the tool-response call can bring
\* ("deploy_path_missing": a deploy call whose working copy is gone from disk)
LLMResponses == FunctionNames \cup {"text", "llm_error", "chat_error",
                                    "deploy_path_missing"}
StageResults == {"ok", "clone_failed", "analysis_failed", "dockerfile_failed",
                 "preflight_failed", "invalid_dockerfile", "build_failed",
                 "deploy_failed", "health_failed"}
ToolResults == {"none", "ok", "raise"}

\* process_message returns (or raises "chat_error") and the endpoint sends the
\* reply to the session.  A tool-response call that fails after its retries
\* lands in process_message's except branch ("tool_error").
Return(c, fn, outcome, tool) ==
    /\ LET o == IF tool = "raise" THEN "tool_error" ELSE outcome IN
       lastCall' = [conn |-> c, fn |-> fn, outcome |-> o, reply |-> ReplyType(o),
                    ws |-> SafeSendTarget(active_connections, wsState, hsid[c])]
    /\ SendTo(hsid[c])
    /\ hpc' = [hpc EXCEPT ![c] = AfterSend(hsid[c])]
    /\ pfn' = [pfn EXCEPT ![c] = "none"]
    /\ pstage' = [pstage EXCEPT ![c] = 0]

\* a chat frame arrives: typing indicator, then process_message stores the
\* progress context and sends its first progress message (lines 354-361)
RecvMessage(c) ==
    /\ hpc[c] = "recv"
    /\ wsState[c] = "open"
    /\ msgCount < MaxMsgs
    /\ msgCount' = msgCount + 1
    /\ SendTo(hsid[c])
    /\ orchs' = [orchs EXCEPT ![horch[c]].session_id = hsid[c]]
    /\ hpc' = [hpc EXCEPT ![c] = "p_llm"]
    /\ lastCall' = NoCall
    /\ UNCHANGED auxVars
    /\ UNCHANGED <<hsid, hold, horch, wsState, kaState, session_orchestrators,
                   nextPath, pfn, pstage>>

\* the model's answer to the user message: plain text, a failure, or a
\* function call, which is routed at once
ProcLLM(c, r, tool) ==
    /\ hpc[c] = "p_llm"
    /\ LET route ==
             IF r \in {"deploy_to_cloudrun", "deploy_path_missing"}
             THEN DeployEntry(orchs[horch[c]].project_path, r = "deploy_to_cloudrun")
             ELSE RouteFunction(r)
           fn == IF r = "deploy_path_missing" THEN "deploy_to_cloudrun" ELSE r
       IN
       IF r \in {"chat_error", "llm_error", "text"}
       THEN tool = "none" /\ Return(c, "none", r, "none")
       ELSE IF route = "pipeline"
       THEN /\ tool = "none"
            /\ hpc' = [hpc EXCEPT ![c] = "p_pipe"]
            /\ pfn' = [pfn EXCEPT ![c] = r]
            /\ SendTo(hsid[c])
            /\ lastCall' = NoCall
            /\ UNCHANGED pstage
       ELSE IF route = "handler_type_error"
       THEN tool = "none" /\ Return(c, fn, route, "none")
       ELSE tool # "none" /\ Return(c, fn, route, tool)
    /\ UNCHANGED auxVars
    /\ UNCHANGED <<hsid, hold, horch, wsState, kaState, session_orchestrators,
                   orchs, nextPath, msgCount>>

\* one awaited collaborator call of a pipeline returns; progress goes out
\* through _send_progress_message, which swallows every send error.  A
\* successful clone stores the working-copy path at once (lines 511-514).
ProcStage(c, out, tool) ==
    /\ hpc[c] = "p_pipe"
    /\ LET stages == Stages(pfn[c])
           stage == stages[pstage[c] + 1]
           cloned == stage = "repo_clone" /\ out = "ok"
       IN
       /\ out \in StageFailures(stage) \cup {"ok"}
       /\ cloned => nextPath < MaxClones
       /\ nextPath' = IF cloned THEN nextPath + 1 ELSE nextPath
       /\ orchs' = IF cloned
                   THEN [orchs EXCEPT ![horch[c]].project_path = nextPath + 1]
                   ELSE orchs
       /\ IF SendProgressOutcome(active_connections, wsState, hsid[c]) = "raise"
          THEN tool = "none" /\ Return(c, pfn[c], "progress_error", "none")
          ELSE IF out = "ok" /\ pstage[c] + 1 < Len(stages)
          THEN /\ tool = "none"
               /\ pstage' = [pstage EXCEPT ![c] = @ + 1]
               /\ SendTo(hsid[c])
               /\ lastCall' = NoCall
               /\ UNCHANGED <<hpc, pfn>>
          ELSE /\ tool # "none"
               /\ Return(c, pfn[c],
                         IF out = "ok" THEN PipelineDone(pfn[c]) ELSE out, tool)
    /\ UNCHANGED auxVars
    /\ UNCHANGED <<hsid, hold, horch, wsState, kaState, session_orchestrators,
                   msgCount>>

\* the client's side of the transport goes away
ClientDrop(c) ==
    /\ wsState[c] = "open"
    /\ hpc[c] \notin {"idle", "init", "done"}
    /\ wsState' = [wsState EXCEPT ![c] = "lost"]
    /\ UNCHANGED auxVars
    /\ UNCHANGED <<hpc, hsid, hold, horch, kaState, active_connections,
                   session_orchestrators, orchs, nextPath, procVars>>
    /\ lastCall' = NoCall

\* receive_json raises (disconnect, RuntimeError, ...): the loop breaks
RecvClosed(c) ==
    /\ hpc[c] = "recv"
    /\ wsState[c] # "open"
    /\ wsState' = [wsState EXCEPT ![c] = "gone"]
    /\ hpc' = [hpc EXCEPT ![c] = "cleanup"]
    /\ UNCHANGED auxVars
    /\ UNCHANGED <<hsid, hold, horch, kaState, active_connections,
                   session_orchestrators, orchs, nextPath, procVars>>
    /\ lastCall' = NoCall

\* finally block, lines 515-529: only if the session id is registered; cancel
\* the handler's own keep-alive task and await it, then delete the binding
Cleanup(c) ==
    /\ hpc[c] = "cleanup"
    /\ IF Registered(active_connections, hsid[c])
       THEN IF kaState[c] \notin {"none", "done"}
            THEN /\ kaState' = [kaState EXCEPT ![c] = "cancelling"]
                 /\ hpc' = [hpc EXCEPT ![c] = "cleanup_wait"]
                 /\ UNCHANGED active_connections
            ELSE /\ active_connections' = Evict(active_connections, hsid[c])
                 /\ hpc' = [hpc EXCEPT ![c] = "done"]
                 /\ UNCHANGED kaState
       ELSE /\ hpc' = [hpc EXCEPT ![c] = "done"]
            /\ UNCHANGED <<kaState, active_connections>>
    /\ UNCHANGED auxVars
    /\ UNCHANGED <<hsid, hold, horch, wsState, session_orchestrators, orchs,
                   nextPath, procVars>>
    /\ lastCall' = NoCall

\* `del active_connections[session_id]` after `await keep_alive` (a KeyError
\* when the binding went away meanwhile ends the handler just the same)
CleanupDelete(c) ==
    /\ hpc[c] = "cleanup_wait"
    /\ kaState[c] = "done"
    /\ active_connections' = Evict(active_connections, hsid[c])
    /\ hpc' = [hpc EXCEPT ![c] = "done"]
    /\ UNCHANGED auxVars
    /\ UNCHANGED <<hsid, hold, horch, wsState, kaState, session_orchestrators,
                   orchs, nextPath, procVars>>
    /\ lastCall' = NoCall

\* keep_alive_task: one ping while the session id is registered
KeepAlivePing(t) ==
    /\ kaState[t] = "running"
    /\ Registered(active_connections, hsid[t])
    /\ SendTo(hsid[t])
    /\ UNCHANGED auxVars
    /\ UNCHANGED <<hpc, hsid, hold, horch, wsState, kaState,
                   session_orchestrators, orchs, nextPath, procVars>>
    /\ lastCall' = NoCall

\* keep_alive_task: the loop ends (session id no longer registered), or the
\* task takes its CancelledError
KeepAliveEnd(t) ==
    /\ \/ kaState[t] = "running" /\ ~Registered(active_connections, hsid[t])
       \/ kaState[t] = "cancelling"
    /\ kaState' = [kaState EXCEPT ![t] = "done"]
    /\ UNCHANGED auxVars
    /\ UNCHANGED <<hpc, hsid, hold, horch, wsState, active_connections,
                   session_orchestrators, orchs, nextPath, procVars>>
    /\ lastCall' = NoCall

\* cleanup_stale_sessions: one hourly round
Sweep ==
    /\ session_orchestrators' =
         [s \in Sessions |->
            IF s \in StaleSessions(session_orchestrators, active_connections)
            THEN 0 ELSE session_orchestrators[s]]
    /\ UNCHANGED auxVars
    /\ UNCHANGED <<hpc, hsid, hold, horch, wsState, kaState, active_connections,
                   orchs, nextPath, procVars>>
    /\ lastCall' = NoCall

Next ==
    \/ \E c \in Conns : Accept(c)
    \/ \E c \in Conns, type \in FirstFrames, s \in Sessions : InitFail(c, type, s)
    \/ \E c \in Conns, s \in Sessions : InitOk(c, s)
    \/ \E c \in Conns : AwaitOldKeepAlive(c)
    \/ \E c \in Conns : CloseOld(c)
    \/ \E c \in Conns : Install(c)
    \/ \E c \in Conns : Hello(c)
    \/ \E c \in Conns : RecvMessage(c)
    \/ \E c \in Conns, r \in LLMResponses, tool \in ToolResults : ProcLLM(c, r, tool)
    \/ \E c \in Conns, out \in StageResults, tool \in ToolResults : ProcStage(c, out, tool)
    \/ \E c \in Conns : ClientDrop(c)
    \/ \E c \in Conns : RecvClosed(c)
    \/ \E c \in Conns : Cleanup(c)
    \/ \E c \in Conns : CleanupDelete(c)
    \/ \E t \in Conns : KeepAlivePing(t)
    \/ \E t \in Conns : KeepAliveEnd(t)
    \/ Sweep

Spec == Init /\ [][Next]_vars

\* a step in which some handler runs its finally block to the end
HandlerEnds == \E c \in Conns : hpc[c] # "done" /\ hpc'[c] = "done"

\* C35: the cleanup of a handler that ends removes the session's binding
\* only if the binding is that of the handler's own transport; the binding
\* of a newer transport of the session stays registered.
C35_CleanupRemovesOwnBinding ==
    [][\A c \in Conns :
          (/\ hpc[c] \in {"cleanup", "cleanup_wait"} /\ hpc'[c] = "done"
           /\ Registered(active_connections, hsid[c])
           /\ ~Registered(active_connections', hsid[c]))
          => active_connections[hsid[c]].websocket = c]_vars

C37_OneHeartbeatPerSession ==
    \A s \in Sessions :
       LET running == {t \in Conns : kaState[t] = "running" /\ hsid[t] = s} IN
       /\ Cardinality(running) <= 1
       /\ \A t \in running :
             Registered(active_connections, s) =>
                active_connections[s].keep_alive_task = t

\* C32: a handshake that fails (first frame not an init frame, or no frame
\* within the init timeout) registers no transport binding, starts no
\* heartbeat task, creates no orchestrator and removes no binding of any
\* session.
C32_FailedHandshakeTouchesNothing ==
    [][\A c \in Conns :
          (hpc[c] = "init" /\ hpc'[c] = "done") =>
             /\ active_connections' = active_connections
             /\ kaState' = kaState
             /\ session_orchestrators' = session_orchestrators
             /\ orchs' = orchs]_vars

\* C32 witness: a handshake has failed while a session was registered.
C32_Witness ==
    \E c \in Conns, s \in Sessions :
       /\ hpc[c] = "done"
       /\ hsid[c] = NoSession
       /\ Registered(active_connections, s)

(***************************************************************************)
(* SpecStages: one run of clone-and-analyze (orchestrator, analysis        *)
(* service, analyzer, Dockerfile expert) or of preflight_checks, followed  *)
(* call by call, with the stage events it emits to the progress notifier.  *)
(* start_stage emits "started", update_progress and                        *)
(* send_update(.., "in-progress") emit "in-progress", complete_stage       *)
(* "complete", fail_stage "failed".                                        *)
(***************************************************************************)
\* the tags behind the DeploymentStages members the orchestrator uses; the
\* analyzer, the Dockerfile expert and preflight_checks pass literals
DeploymentStages == [REPO_CLONE     |-> "repo_clone",
                     CODE_ANALYSIS  |-> "code_analysis",
                     DOCKERFILE_GEN |-> "dockerfile_generation"]

StageTags == {"repo_clone", "code_analysis", "dockerfile_generation",
              "repo_access"}

Ev(tag, state) == [stage |-> tag, state |-> state]

\* `if progress_notifier: await progress_notifier.<method>(...)`
Emit(evs) == events' = IF notifier THEN events \o evs ELSE events

\* the orchestrator's analysis_progress callback, called n times
AnalysisProgress(n) ==
    [i \in 1..n |-> Ev(DeploymentStages.CODE_ANALYSIS, "in-progress")]

StInit ==
    /\ spc \in {"clone_start", "preflight_start"}
    /\ notifier \in BOOLEAN
    /\ events = << >>
    /\ nprog = 0
    /\ checks = NoChecks
    /\ errors = FALSE
    /\ project_context \in {NoContext, EarlierContext}
    /\ dockerfile = NoDockerfile

\* a clone step that would record the request whatever the clone returned
CloneContextAlways(ctx, ok) ==
    [ctx EXCEPT !.project_path = @ + 1, !.repo_url = "requested",
                !.branch = "requested"]

\* lines 498-514: a failed clone returns the error dict; only after that
\* are project_path, repo_url and branch written, all three together
CloneContext(ctx, ok) ==
    IF ok
    THEN [ctx EXCEPT !.project_path = @ + 1, !.repo_url = "requested",
                     !.branch = "requested"]
    ELSE ctx

\* _handle_clone_and_analyze, lines 468-477
CloneStart ==
    /\ spc = "clone_start"
    /\ Emit(<<Ev(DeploymentStages.REPO_CLONE, "started")>>)
    /\ spc' = "cloning"
    /\ UNCHANGED <<notifier, project_context, dockerfile, nprog, checks, errors, gwVars, xtVars, dpVars, brVars>>

\* the clone_progress callback (lines 478-491), called by clone_repository
CloneProgress ==
    /\ spc = "cloning"
    /\ nprog < MaxProgress
    /\ nprog' = nprog + 1
    /\ Emit(<<Ev(DeploymentStages.REPO_CLONE, "in-progress")>>)
    /\ UNCHANGED <<spc, notifier, project_context, dockerfile, checks, errors, gwVars, xtVars, dpVars, brVars>>

\* clone_repository returns (lines 493-536)
CloneResult(ok) ==
    /\ spc = "cloning"
    /\ IF ok
       THEN /\ Emit(<<Ev(DeploymentStages.REPO_CLONE, "complete"),
                      Ev(DeploymentStages.CODE_ANALYSIS, "started")>>)
            /\ spc' = "analysis_service"
       ELSE /\ Emit(<<Ev(DeploymentStages.REPO_CLONE, "failed")>>)
            /\ spc' = "returned_error"
    /\ project_context' = CloneContext(project_context, ok)
    /\ nprog' = 0
    /\ UNCHANGED <<notifier, dockerfile, checks, errors, gwVars, xtVars, dpVars, brVars>>

\* analyze_and_generate lines 31-35 and analyze_project lines 50-60: two
\* progress callbacks, then the analyzer starts its stage and looks at the
\* path; a missing path is returned as an error dict, reported by the
\* callbacks of lines 38-42
AnalyzeProjectStart(exists) ==
    /\ spc = "analysis_service"
    /\ IF exists
       THEN /\ Emit(AnalysisProgress(2) \o <<Ev("code_analysis", "started")>>)
            /\ spc' = "analyzer_scan"
       ELSE /\ Emit(AnalysisProgress(2) \o <<Ev("code_analysis", "started")>>
                    \o AnalysisProgress(2))
            /\ spc' = "analysis_failed"
    /\ UNCHANGED <<notifier, project_context, dockerfile, nprog, checks, errors, gwVars, xtVars, dpVars, brVars>>

\* analyze_project lines 62-89: directory scan and prompt
AnalyzerScan ==
    /\ spc = "analyzer_scan"
    /\ Emit(<<Ev("code_analysis", "in-progress"), Ev("code_analysis", "in-progress")>>)
    /\ spc' = "analyzer_model"
    /\ UNCHANGED <<notifier, project_context, dockerfile, nprog, checks, errors, gwVars, xtVars, dpVars, brVars>>

\* analyze_project lines 91-221: the model's classification ("json"), the
\* backup model's ("backup_json"), or the static fallback; then the
\* callbacks of analyze_and_generate lines 38-47
AnalyzerClassify(how, deps) ==
    /\ spc = "analyzer_model"
    /\ Emit((IF how = "fallback" THEN << >>
             ELSE <<Ev("code_analysis", "complete")>>)
            \o AnalysisProgress(IF deps THEN 3 ELSE 2))
    /\ spc' = "dockerfile_expert"
    /\ UNCHANGED <<notifier, project_context, dockerfile, nprog, checks, errors, gwVars, xtVars, dpVars, brVars>>

\* the (language, framework) keys of DockerExpertAgent.templates
Catalog == {<<"python", "flask">>, <<"python", "fastapi">>,
            <<"nodejs", "express">>, <<"nodejs", "nextjs">>,
            <<"golang", "gin">>}

\* analyze_and_generate lines 56-66 and generate_dockerfile: the template
\* of a key in the catalog; otherwise the model is asked, and it answers
\* with text, answers without text (a fixed Python recipe is used), or the
\* call raises (caught by analyze_and_generate, which reports failure)
GenerateDockerfile(language, framework, model) ==
    /\ spc = "dockerfile_expert"
    /\ LET begin == AnalysisProgress(2)
                    \o <<Ev("dockerfile_generation", "started"),
                         Ev("dockerfile_generation", "in-progress")>>
           kind == IF <<language, framework>> \in Catalog THEN "template"
                   ELSE CASE model = "text"  -> "model"
                          [] model = "empty" -> "generic"
                          [] OTHER           -> "raised"
       IN /\ dockerfile' = [kind |-> kind, language |-> language,
                            base |-> IF kind = "generic" THEN "python"
                                     ELSE language]
          /\ IF kind = "raised"
             THEN /\ Emit(begin)
                  /\ spc' = "analysis_failed"
             ELSE /\ Emit(begin \o <<Ev("dockerfile_generation", "complete")>>
                          \o AnalysisProgress(3))
                  /\ spc' = "analysis_done"
    /\ UNCHANGED <<notifier, project_context, nprog, checks, errors, gwVars, xtVars, dpVars, brVars>>

\* _handle_clone_and_analyze lines 577-616: the analysis result is judged
\* and, when good, the Dockerfile stage is started
AnalysisResult ==
    /\ spc \in {"analysis_failed", "analysis_done"}
    /\ IF spc = "analysis_failed"
       THEN /\ Emit(<<Ev(DeploymentStages.CODE_ANALYSIS, "failed")>>)
            /\ spc' = "returned_error"
       ELSE /\ Emit(<<Ev(DeploymentStages.CODE_ANALYSIS, "complete"),
                      Ev(DeploymentStages.DOCKERFILE_GEN, "started")>>)
            /\ spc' = "saving"
    /\ UNCHANGED <<notifier, project_context, dockerfile, nprog, checks, errors, gwVars, xtVars, dpVars, brVars>>

\* the dockerfile_progress callback (lines 617-629), called by save_dockerfile
SaveProgress ==
    /\ spc = "saving"
    /\ nprog < MaxProgress
    /\ nprog' = nprog + 1
    /\ Emit(<<Ev(DeploymentStages.DOCKERFILE_GEN, "in-progress")>>)
    /\ UNCHANGED <<spc, notifier, project_context, dockerfile, checks, errors, gwVars, xtVars, dpVars, brVars>>

\* save_dockerfile returns and the analysis is stored in the context
\* (lines 631-657), or it raises into the handler's except branch
SaveDockerfile(ok) ==
    /\ spc = "saving"
    /\ IF ok
       THEN /\ Emit(<<Ev(DeploymentStages.DOCKERFILE_GEN, "complete")>>)
            /\ project_context' = [project_context EXCEPT !.analysis = TRUE]
            /\ spc' = "returned_analysis"
       ELSE /\ Emit(<< >>)
            /\ UNCHANGED project_context
            /\ spc' = "returned_error"
    /\ nprog' = 0
    /\ UNCHANGED <<notifier, dockerfile, checks, errors, gwVars, xtVars, dpVars, brVars>>

\* preflight_checks lines 176-181
PreflightStart ==
    /\ spc = "preflight_start"
    /\ Emit(<<Ev("repo_access", "started")>>)
    /\ spc' = "check_project"
    /\ UNCHANGED <<notifier, project_context, dockerfile, nprog, checks, errors, gwVars, xtVars, dpVars, brVars>>

\* check 1, lines 183-202
CheckProjectAccess(ok) ==
    /\ spc = "check_project"
    /\ IF ok
       THEN /\ checks' = [checks EXCEPT !.project_access = TRUE]
            /\ Emit(<<Ev("repo_access", "in-progress")>>)
            /\ UNCHANGED errors
       ELSE /\ errors' = TRUE
            /\ Emit(<<Ev("repo_access", "failed")>>)
            /\ UNCHANGED checks
    /\ spc' = "check_registry"
    /\ UNCHANGED <<notifier, project_context, dockerfile, nprog, gwVars, xtVars, dpVars, brVars>>

\* check 2, lines 204-258: the repository is found, is created, or the
\* lookup or the creation fails
CheckArtifactRegistry(how) ==
    /\ spc = "check_registry"
    /\ checks' = [checks EXCEPT !.artifact_registry = how \in {"found", "created"}]
    /\ errors' = (errors \/ how \in {"lookup_failed", "create_failed"})
    /\ Emit(CASE how = "found"         -> <<Ev("repo_access", "in-progress")>>
              [] how = "lookup_failed" -> <<Ev("repo_access", "in-progress")>>
              [] OTHER -> <<Ev("repo_access", "in-progress"),
                            Ev("repo_access", "in-progress")>>)
    /\ spc' = "verdict"
    /\ UNCHANGED <<notifier, project_context, dockerfile, nprog, gwVars, xtVars, dpVars, brVars>>

\* lines 260-277: the stage is closed on the checks made so far
PreflightVerdict ==
    /\ spc = "verdict"
    /\ Emit(IF \A k \in DOMAIN checks : checks[k]
            THEN <<Ev("repo_access", "complete")>>
            ELSE IF errors THEN <<Ev("repo_access", "failed")>>
            ELSE << >>)
    /\ spc' = "check_apis"
    /\ UNCHANGED <<notifier, project_context, dockerfile, nprog, checks, errors, gwVars, xtVars, dpVars, brVars>>

\* checks 3 to 5, lines 278-339, and the result
CheckApis(build, run, bucket) ==
    /\ spc = "check_apis"
    /\ checks' = [checks EXCEPT !.cloud_build_api = build,
                                !.cloud_run_api = run,
                                !.storage_bucket = bucket]
    /\ errors' = (errors \/ ~build \/ ~run \/ ~bucket)
    /\ spc' = IF \A k \in DOMAIN checks' : checks'[k]
              THEN "returned_ok" ELSE "returned_error"
    /\ UNCHANGED <<notifier, project_context, dockerfile, events, nprog, gwVars, xtVars, dpVars, brVars>>

StagesNext ==
    \/ CloneStart
    \/ CloneProgress
    \/ \E ok \in BOOLEAN : CloneResult(ok)
    \/ \E exists \in BOOLEAN : AnalyzeProjectStart(exists)
    \/ AnalyzerScan
    \/ \E how \in {"json", "backup_json", "fallback"}, deps \in BOOLEAN :
         AnalyzerClassify(how, deps)
    \/ \E language \in {"python", "nodejs", "golang", "unknown"},
          framework \in {"flask", "express", "unknown"},
          model \in {"text", "empty", "raise"} :
         GenerateDockerfile(language, framework, model)
    \/ AnalysisResult
    \/ SaveProgress
    \/ \E ok \in BOOLEAN : SaveDockerfile(ok)
    \/ PreflightStart
    \/ \E ok \in BOOLEAN : CheckProjectAccess(ok)
    \/ \E how \in {"found", "created", "lookup_failed", "create_failed"} :
         CheckArtifactRegistry(how)
    \/ PreflightVerdict
    \/ \E build, run, bucket \in BOOLEAN : CheckApis(build, run, bucket)

InitStages == GwInit /\ StInit /\ DpIdle /\ BrIdle /\ XtIdle

SpecStages == InitStages /\ [][StagesNext]_vars

\* the events of one stage tag, in order
EventsOf(tag) == SelectSeq(events, LAMBDA e : e.stage = tag)

\* C4: for every stage tag the events emitted so far are a prefix of
\* started, in-progress*, (complete | failed): the first event is started,
\* started never comes again, and nothing follows a terminal event.
C4_StageEventsOrdered ==
    \A tag \in StageTags :
        LET es == EventsOf(tag) IN
        \A i \in 1..Len(es) :
            /\ (es[i].state = "started") <=> (i = 1)
            /\ i < Len(es) => es[i].state \notin {"complete", "failed"}

\* C21: generate_dockerfile never fails outward, and the recipe it falls
\* back to when the model gives nothing is one for the analysis's language.
C21_RecipeAlwaysReturned ==
    /\ dockerfile.kind # "raised"
    /\ dockerfile.kind = "generic" => dockerfile.base = dockerfile.language

\* C18: once the run has returned, every stage tag for which a started event
\* was emitted has exactly one terminal event (complete or failed), on the
\* success, failure and fallback paths alike.
C18_OneTerminalPerStage ==
    spc \in {"returned_ok", "returned_error", "returned_analysis"} =>
        \A tag \in StageTags :
            LET es == EventsOf(tag) IN
            (\E i \in 1..Len(es) : es[i].state = "started") =>
                Cardinality({i \in 1..Len(es) :
                               es[i].state \in {"complete", "failed"}}) = 1

\* C38: a clone-and-analyze that fails at the clone step leaves the
\* project context as it was: no working-copy path, repository url or branch
\* is written, and what an earlier successful run stored is kept.
C38_FailedCloneKeepsContext ==
    [][(spc = "cloning" /\ spc' = "returned_error") =>
          project_context' = project_context]_vars

\* C38 witness: a clone has failed on an orchestrator that holds the
\* context of an earlier clone-and-analyze.
C38_Witness ==
    /\ spc = "returned_error"
    /\ project_context = EarlierContext

\* C15: whenever the project context holds a working-copy path, it also
\* holds the analysis of that working copy (snapshot, framework, language),
\* after any outcome of clone-and-analyze.
C15_PathImpliesAnalysis ==
    project_context.project_path # NoPath => project_context.analysis

(***************************************************************************)
(* SpecDeploy: _handle_deploy_to_cloudrun from the deployment id on        *)
(* (lines 889-1275), with the calls it makes to the monitoring service:    *)
(* record_stage(id, stage, outcome) and complete_deployment(id, outcome).  *)
(***************************************************************************)
NoResults == [preflight |-> "none", build |-> "none", deploy |-> "none",
              health |-> "none", image_tag |-> "none"]

\* the outcome recorded for the build and the deploy stage: the result dict
\* is checked before the metric is written (lines 1036-1060, 1098-1122)
StageOutcomeUnchecked(success) == "success"

StageOutcome(success) == IF success THEN "success" ELSE "failed"

Metric(stage, outcome) == [id |-> ndep, stage |-> stage, outcome |-> outcome]
Seal(outcome) == [id |-> ndep, outcome |-> outcome]

\* uuid4 draws are fresh: the handler's n-th draw is n, the gateway's n-th
\* draw lies above every draw of the handler
GatewayUuid(n) == MaxDeploys + n

DpInit ==
    /\ dpc = "idle"
    /\ ndep = 0
    /\ op_results = << >>
    /\ stage_metrics = << >>
    /\ sealed = << >>
    /\ announced = << >>
    /\ results = << >>
    /\ deployment_url = 0
    /\ entries = << >>
    /\ calls = << >>

\* an awaited call to a collaborator, made for the current deployment
Invoke(op, image) ==
    calls' = Append(calls, [id |-> ndep, op |-> op, image |-> image])

\* a deploy step that would push the tag the handler computed itself
DeployImageLocal(build_result) == "local"

\* line 1087: the image handed to deploy_to_cloudrun
DeployImage(build_result) == build_result.image_tag

\* the handler returns a dict of this 'type' for the current deployment
Returns(type) == results' = [results EXCEPT ![ndep] = type]

\* app.py 437-459: a chat message that will lead to a deploy call.  When it
\* holds a deployment keyword the gateway draws a deployment id of its own,
\* builds the progress notifier around it and announces it in the
\* deployment_started frame (0: nothing announced).
GatewayMessage(might_deploy) ==
    /\ dpc = "idle"
    /\ Len(entries) < MaxDeploys
    /\ announced' = Append(announced,
                           IF might_deploy THEN GatewayUuid(Len(entries) + 1)
                           ELSE 0)
    /\ dpc' = "message"
    /\ UNCHANGED <<ndep, op_results, stage_metrics, sealed, results,
                   deployment_url, entries, calls, gwVars, xtVars, stVars, brVars>>

\* lines 838-930: the working copy is looked up (a call without one, or
\* with one that is gone from disk, is answered with an error at once);
\* then the deployment id, start_deployment, service-name validation and
\* the 'validation' stage metric
DeployBegin(path, on_disk, name_valid) ==
    /\ dpc = "message"
    /\ LET route == DeployEntry(path, on_disk) IN
       IF route # "pipeline"
       THEN /\ entries' = Append(entries, [path |-> path, on_disk |-> on_disk,
                                           id |-> 0, result |-> route])
            /\ dpc' = "idle"
            /\ UNCHANGED <<ndep, op_results, stage_metrics, sealed, results>>
       ELSE /\ entries' = Append(entries, [path |-> path, on_disk |-> on_disk,
                                           id |-> ndep + 1, result |-> route])
            /\ ndep' = ndep + 1
            /\ op_results' = Append(op_results, NoResults)
            /\ IF name_valid
               THEN /\ stage_metrics' = Append(stage_metrics,
                          [id |-> ndep + 1, stage |-> "validation",
                           outcome |-> "success"])
                    /\ dpc' = "preflight"
                    /\ results' = Append(results, "none")
                    /\ UNCHANGED sealed
               ELSE /\ sealed' = Append(sealed, [id |-> ndep + 1,
                                                 outcome |-> "failed"])
                    /\ dpc' = "idle"
                    /\ results' = Append(results, "error")
                    /\ UNCHANGED stage_metrics
    /\ UNCHANGED <<announced, deployment_url, calls, gwVars, xtVars, stVars, brVars>>

\* lines 932-961: preflight_checks; a failed preflight returns an error
DeployPreflight(ok) ==
    /\ dpc = "preflight"
    /\ Invoke("preflight", "none")
    /\ op_results' = [op_results EXCEPT ![ndep].preflight =
                        IF ok THEN "success" ELSE "failure"]
    /\ IF ok THEN dpc' = "dockerfile" /\ UNCHANGED results
       ELSE dpc' = "idle" /\ Returns("error")
    /\ UNCHANGED <<ndep, stage_metrics, sealed, announced, deployment_url,
                   entries, gwVars, xtVars, stVars, brVars>>

\* lines 963-981: validate_dockerfile
DeployValidateDockerfile(valid) ==
    /\ dpc = "dockerfile"
    /\ IF valid
       THEN dpc' = "security" /\ UNCHANGED <<sealed, results>>
       ELSE /\ dpc' = "idle"
            /\ sealed' = Append(sealed, Seal("failed"))
            /\ Returns("error")
    /\ UNCHANGED <<ndep, op_results, stage_metrics, announced, deployment_url,
                   entries, calls, gwVars, xtVars, stVars, brVars>>

\* lines 983-1009: the security scan and its tracker events
DeploySecurityScan ==
    /\ dpc = "security"
    /\ dpc' = "build"
    /\ UNCHANGED <<ndep, op_results, stage_metrics, sealed, announced, results,
                   deployment_url, entries, calls, gwVars, xtVars, stVars, brVars>>

\* lines 1011-1068: build_image returns its result dict, with the tag of
\* the image it pushed
DeployBuild(success, tag) ==
    /\ dpc = "build"
    /\ Invoke("build", "none")
    /\ op_results' = [op_results EXCEPT
                        ![ndep].build = IF success THEN "success" ELSE "failure",
                        ![ndep].image_tag = IF success THEN tag ELSE "none"]
    /\ stage_metrics' = Append(stage_metrics, Metric("build", StageOutcome(success)))
    /\ IF success
       THEN dpc' = "deploy" /\ UNCHANGED <<sealed, results>>
       ELSE /\ dpc' = "idle"
            /\ sealed' = Append(sealed, Seal("failed"))
            /\ Returns("error")
    /\ UNCHANGED <<ndep, announced, deployment_url, entries, gwVars, xtVars, stVars, brVars>>

\* lines 1070-1123: deploy_to_cloudrun returns its result dict
DeployRun(success) ==
    /\ dpc = "deploy"
    /\ Invoke("deploy", DeployImage(op_results[ndep]))
    /\ op_results' = [op_results EXCEPT ![ndep].deploy =
                        IF success THEN "success" ELSE "failure"]
    /\ stage_metrics' = Append(stage_metrics, Metric("deploy", StageOutcome(success)))
    /\ IF success
       THEN dpc' = "health" /\ UNCHANGED <<sealed, results>>
       ELSE /\ dpc' = "idle"
            /\ sealed' = Append(sealed, Seal("failed"))
            /\ Returns("error")
    /\ UNCHANGED <<ndep, announced, deployment_url, entries, gwVars, xtVars, stVars, brVars>>

\* lines 1125-1202: health verification.  A failed one returns a warning at
\* once (1149-1183); a passed one seals the deployment and stores the
\* service name, URL and deployment id in the project context.
DeployHealth(healthy) ==
    /\ dpc = "health"
    /\ Invoke("health", "none")
    /\ op_results' = [op_results EXCEPT ![ndep].health =
                        IF healthy THEN "success" ELSE "failure"]
    /\ IF healthy
       THEN /\ sealed' = Append(sealed, Seal("success"))
            /\ deployment_url' = ndep
            /\ dpc' = "finishing"
            /\ UNCHANGED results
       ELSE /\ dpc' = "idle"
            /\ Returns("warning")
            /\ UNCHANGED <<sealed, deployment_url>>
    /\ UNCHANGED <<ndep, stage_metrics, announced, entries, gwVars, xtVars, stVars, brVars>>

\* lines 1204-1264: cost estimate, formatted response, return
DeployFinish ==
    /\ dpc = "finishing"
    /\ dpc' = "idle"
    /\ Returns("deployment_complete")
    /\ UNCHANGED <<ndep, op_results, stage_metrics, sealed, announced,
                   deployment_url, entries, calls, gwVars, xtVars, stVars, brVars>>

\* lines 1266-1275: an exception out of any call inside the try block
DeployException ==
    /\ dpc \in {"preflight", "dockerfile", "security", "build", "deploy",
                "health", "finishing"}
    /\ sealed' = Append(sealed, Seal("failed"))
    /\ dpc' = "idle"
    /\ Returns("error")
    /\ UNCHANGED <<ndep, op_results, stage_metrics, announced, deployment_url,
                   entries, calls, gwVars, xtVars, stVars, brVars>>

DeployNext ==
    \/ \E k \in BOOLEAN : GatewayMessage(k)
    \/ \E path \in {NoPath, 1}, on_disk, v \in BOOLEAN :
         DeployBegin(path, on_disk, v)
    \/ \E ok \in BOOLEAN : DeployPreflight(ok)
    \/ \E v \in BOOLEAN : DeployValidateDockerfile(v)
    \/ DeploySecurityScan
    \/ \E s \in BOOLEAN, tag \in {"local", "registry"} : DeployBuild(s, tag)
    \/ \E s \in BOOLEAN : DeployRun(s)
    \/ \E h \in BOOLEAN : DeployHealth(h)
    \/ DeployFinish
    \/ DeployException

InitDeploy == GwInit /\ StIdle /\ DpInit /\ BrIdle /\ XtIdle

SpecDeploy == InitDeploy /\ [][DeployNext]_vars

MetricsOf(id, stage) ==
    {stage_metrics[i].outcome : i \in {j \in 1..Len(stage_metrics) :
        stage_metrics[j].id = id /\ stage_metrics[j].stage = stage}}
SealsOf(id) == {sealed[i].outcome : i \in {j \in 1..Len(sealed) : sealed[j].id = id}}

\* C5: a build or deploy stage metric says success only if the operation
\* returned success; when the operation returned failure the metric of that
\* stage is failed, there is no success metric for it, and the deployment is
\* sealed failed.
C5_MetricMatchesOperation ==
    \A id \in 1..ndep : \A stage \in {"build", "deploy"} :
        /\ "success" \in MetricsOf(id, stage) => op_results[id][stage] = "success"
        /\ op_results[id][stage] = "failure" =>
             /\ MetricsOf(id, stage) = {"failed"}
             /\ SealsOf(id) = {"failed"}

\* C5 witness: one deployment whose build failed and another whose build
\* succeeded and whose deploy failed, both recorded.
C5_Witness ==
    \E a, b \in 1..ndep :
        /\ op_results[a].build = "failure" /\ MetricsOf(a, "build") = {"failed"}
        /\ op_results[b].build = "success" /\ op_results[b].deploy = "failure"
        /\ MetricsOf(b, "build") = {"success"} /\ SealsOf(b) = {"failed"}

\* C14: when the handler has returned, every deployment record it created
\* has been sealed exactly once, and sealed success only if its build,
\* deploy and health verification succeeded.
C14_SealedExactlyOnce ==
    dpc = "idle" =>
        \A id \in 1..ndep :
            /\ Cardinality({j \in 1..Len(sealed) : sealed[j].id = id}) = 1
            /\ "success" \in SealsOf(id) =>
                 /\ op_results[id].build = "success"
                 /\ op_results[id].deploy = "success"
                 /\ op_results[id].health = "success"

\* C16: the deployment id announced in the deployment_started frame is the
\* id of the deployment record, of its metrics and of the final message.
C16_OneDeploymentId ==
    \A n \in 1..Len(entries) :
        (announced[n] # 0 /\ entries[n].id # 0) => announced[n] = entries[n].id

\* C19: a deployment whose build and deploy succeeded and whose health
\* verification failed is answered with a warning, its record is sealed
\* success and its service URL is stored in the project context.
C19_HealthDegradedIsSuccess ==
    (dpc = "idle" /\ ndep > 0 /\ op_results[ndep].health = "failure") =>
        /\ results[ndep] = "warning"
        /\ SealsOf(ndep) = {"success"}
        /\ deployment_url = ndep

CallsOf(id) == SelectSeq(calls, LAMBDA c : c.id = id)

\* C28: the collaborator calls of a deployment are a prefix of preflight,
\* build, deploy, health, each made only after the one before it returned
\* success, and the image deployed is the one the build returned.
C28_StagesInOrder ==
    \A id \in 1..ndep :
        LET cs == CallsOf(id)
            order == <<"preflight", "build", "deploy", "health">>
        IN
        /\ Len(cs) <= 4
        /\ \A i \in 1..Len(cs) :
             /\ cs[i].op = order[i]
             /\ i > 1 => op_results[id][order[i - 1]] = "success"
             /\ cs[i].op = "deploy" => cs[i].image = op_results[id].image_tag

\* C28 witness: one deployment stopped at a failed build, and another went
\* through all four calls, deploying an image tag that differs from the
\* one the handler computes itself.
C28_Witness ==
    \E a, b \in 1..ndep :
        /\ op_results[a].build = "failure" /\ Len(CallsOf(a)) = 2
        /\ Len(CallsOf(b)) = 4
        /\ CallsOf(b)[3].image = "registry"
        /\ dpc = "idle"

(***************************************************************************)
(* SpecBroker: the LLM sends of one orchestrator - _send_with_fallback for *)
(* a user message, _retry_with_backoff for a tool response - and the       *)
(* endpoints they contact: "vertex" (Vertex AI) and "gemini" (Gemini API). *)
(***************************************************************************)
\* the endpoint behind self.model (constructor lines 52-101, switch 315-316)
ModelEndpoint(vertex) == IF vertex THEN "vertex" ELSE "gemini"

\* max_retries of the two call sites (lines 274 and 404)
SendRetries == 2
ToolRetries == 3
MaxRetries(kind) == IF kind = "user" THEN SendRetries ELSE ToolRetries

\* base_delay of the two call sites (lines 275 and 405), in seconds
SendBaseDelay == 1
ToolBaseDelay == 2
BaseDelay(kind) == IF kind = "user" THEN SendBaseDelay ELSE ToolBaseDelay

\* _retry_with_backoff line 260: base_delay * (2 ** attempt)
Backoff(kind, n) == BaseDelay(kind) * 2^n

\* a failover that would keep the chat session it had
SessionAfterSwitchKept(cs) == cs

\* lines 306-317: the chat session in use after the switch
SessionAfterSwitch(cs) == "gemini"

BrInit ==
    /\ bpc = "idle"
    /\ use_vertex_ai \in BOOLEAN
    /\ gemini_api_key \in BOOLEAN
    /\ use_vertex_ai \/ gemini_api_key
    /\ chat_session = "none"
    /\ attempt = 0
    /\ requests = << >>
    /\ switched_at = 0

\* process_message lines 363-381 (a user message: the chat session is
\* created when there is none) or lines 396-406 (a tool response, which
\* follows an answered request)
BeginRequest(kind) ==
    /\ bpc = "idle"
    /\ Len(requests) < MaxRequests
    /\ kind = "tool" => chat_session # "none"
    /\ chat_session' = IF kind = "user" /\ chat_session = "none"
                       THEN ModelEndpoint(use_vertex_ai) ELSE chat_session
    /\ requests' = Append(requests,
                     [kind |-> kind, contacted |-> {}, fell_back |-> FALSE,
                      outcomes |-> << >>, delays |-> << >>, notes |-> << >>])
    /\ attempt' = 0
    /\ bpc' = "sending"
    /\ UNCHANGED <<use_vertex_ai, gemini_api_key, switched_at, gwVars, xtVars, stVars, dpVars>>

\* _retry_with_backoff: one chat_session.send_message.  A network error is
\* retried unless it was the last attempt; anything else propagates.  Only
\* _send_with_fallback looks at a propagated quota error (lines 278-334).
SendAttempt(outcome) ==
    /\ bpc = "sending"
    /\ LET r == Len(requests)
           kind == requests[r].kind
           retry == outcome = "network" /\ attempt # MaxRetries(kind) - 1
       IN
       /\ requests' = [requests EXCEPT
             ![r].contacted = @ \cup {chat_session},
             ![r].outcomes = Append(@, outcome),
             ![r].delays = IF retry THEN Append(@, Backoff(kind, attempt)) ELSE @,
             ![r].notes = IF retry THEN Append(@, "retrying")
                          ELSE IF outcome = "quota" /\ kind = "user"
                                  /\ use_vertex_ai /\ gemini_api_key
                          THEN Append(@, "switching")
                          ELSE @]
       /\ IF outcome = "ok"
          THEN bpc' = "idle" /\ attempt' = 0
          ELSE IF outcome = "network" /\ attempt # MaxRetries(kind) - 1
          THEN bpc' = "sending" /\ attempt' = attempt + 1
          ELSE IF outcome = "quota" /\ kind = "user"
                  /\ use_vertex_ai /\ gemini_api_key
          THEN bpc' = "fallback" /\ attempt' = 0
          ELSE bpc' = "idle" /\ attempt' = 0
    /\ UNCHANGED <<use_vertex_ai, gemini_api_key, chat_session, switched_at,
                   gwVars, xtVars, stVars, dpVars>>

\* lines 293-325: the message goes to a fresh chat on the backup model; only
\* when that call answers does the orchestrator switch
Fallback(ok) ==
    /\ bpc = "fallback"
    /\ LET r == Len(requests) IN
       /\ requests' = [requests EXCEPT
             ![r].contacted = @ \cup {"gemini"},
             ![r].fell_back = TRUE,
             ![r].notes = IF ok THEN Append(@, "switched") ELSE @]
       /\ IF ok
          THEN /\ use_vertex_ai' = FALSE
               /\ chat_session' = SessionAfterSwitch(chat_session)
               /\ switched_at' = r
          ELSE UNCHANGED <<use_vertex_ai, chat_session, switched_at>>
    /\ bpc' = "idle"
    /\ UNCHANGED <<gemini_api_key, attempt, gwVars, xtVars, stVars, dpVars>>

\* reset_chat, lines 1480-1484
ResetChat ==
    /\ bpc = "idle"
    /\ chat_session # "none"
    /\ chat_session' = "none"
    /\ UNCHANGED <<bpc, use_vertex_ai, gemini_api_key, attempt, requests,
                   switched_at, gwVars, xtVars, stVars, dpVars>>

BrokerNext ==
    \/ \E kind \in {"user", "tool"} : BeginRequest(kind)
    \/ \E outcome \in {"ok", "network", "quota", "other"} : SendAttempt(outcome)
    \/ \E ok \in BOOLEAN : Fallback(ok)
    \/ ResetChat

InitBroker == GwInit /\ StIdle /\ DpIdle /\ BrInit /\ XtIdle

SpecBroker == InitBroker /\ [][BrokerNext]_vars

\* C6 (as claimed): after the switch every later request contacts the backup
\* only, and no request at all is sent to both endpoints.
C6_NoRequestToBothEndpoints ==
    \A r \in 1..Len(requests) :
        /\ (switched_at # 0 /\ r > switched_at) => requests[r].contacted \subseteq {"gemini"}
        /\ Cardinality(requests[r].contacted) <= 1

\* C6 (amended): after the switch every later request - user message or tool
\* response - contacts the backup only; the one kind of request that reaches
\* both endpoints is a user message whose quota failure on the primary made
\* the broker re-issue it to the backup.
C6_BackupOnlyAfterFailover ==
    \A r \in 1..Len(requests) :
        /\ (switched_at # 0 /\ r > switched_at) => requests[r].contacted \subseteq {"gemini"}
        /\ Cardinality(requests[r].contacted) > 1 =>
             requests[r].fell_back /\ requests[r].kind = "user"

\* C6 witness: the broker switched, and afterwards a tool response and a
\* user message were sent, each to the backup.
C6_Witness ==
    /\ switched_at # 0
    /\ \E r, q \in 1..Len(requests) :
         /\ r > switched_at /\ requests[r].kind = "tool"
         /\ q > switched_at /\ requests[q].kind = "user"
         /\ requests[r].contacted = {"gemini"} /\ requests[q].contacted = {"gemini"}

\* request r has been answered or given up
Completed(r) == r < Len(requests) \/ bpc = "idle"

\* C22: a request whose send to the primary endpoint ended in a quota error
\* while a backup credential was configured is re-issued to the backup with
\* a progress note, and the backup is tried for at most one request of the
\* session.
C22_QuotaFailoverOnce ==
    /\ Cardinality({r \in 1..Len(requests) : requests[r].fell_back}) <= 1
    /\ \A r \in 1..Len(requests) :
         LET q == requests[r] IN
         (/\ Completed(r)
          /\ q.outcomes # << >>
          /\ q.outcomes[Len(q.outcomes)] = "quota"
          /\ "vertex" \in q.contacted
          /\ gemini_api_key)
         => /\ q.fell_back
            /\ \E n \in 1..Len(q.notes) : q.notes[n] = "switching"

\* C25: a send is attempted at most 3 times; only a transient error is
\* followed by another attempt, each time after one progress note and a
\* delay of 1 s, then 2 s; a send given up on transient errors was attempted
\* 3 times.
C25_TransientRetry ==
    \A r \in 1..Len(requests) :
        LET q == requests[r]
            n == Len(q.outcomes)
        IN
        /\ n <= 3
        /\ \A i \in 1..(n - 1) : q.outcomes[i] = "network"
        /\ \A i \in 1..Len(q.delays) : q.delays[i] = 2^(i - 1)
        /\ (Completed(r) /\ n > 0 /\ \A i \in 1..n : q.outcomes[i] = "network")
             => /\ n = 3
                /\ q.delays = <<1, 2>>
                /\ q.notes = <<"retrying", "retrying">>

(***************************************************************************)
(* Properties of the gateway.                                              *)
(***************************************************************************)
InProcess(c) == hpc[c] \in {"p_llm", "p_pipe"}
Failures == {"llm_error", "chat_error", "tool_error", "handler_type_error",
             "unknown_function", "no_project", "path_missing", "clone_failed",
             "analysis_failed", "dockerfile_failed", "preflight_failed",
             "invalid_dockerfile", "build_failed", "deploy_failed",
             "health_failed", "progress_error"}

\* C1: whenever a session's binding is replaced by another one, the transport
\* of the replaced binding has been closed and its heartbeat task cancelled
\* before the new transport is installed - in every interleaving, two
\* concurrent reconnects included.
C1_OldClosedBeforeInstall ==
    [][\A s \in Sessions :
         (/\ Registered(active_connections, s)
          /\ Registered(active_connections', s)
          /\ active_connections'[s] # active_connections[s])
         => /\ wsState[active_connections[s].websocket] \in {"srvclosed", "gone"}
            /\ kaState[active_connections[s].keep_alive_task] \in {"cancelling", "done"}]_vars

\* C2: once a session's orchestrator holds a working-copy path, no step
\* replaces the session's orchestrator instance, a handler that installs
\* itself for the session holds that same instance, and the path changes
\* only in a step in which a clone succeeds (never by connect, cleanup or
\* the sweeper).
C2_ContextSurvivesReconnects ==
    [][\A s \in Sessions :
         (HasOrchestrator(session_orchestrators, s)
            /\ orchs[session_orchestrators[s]].project_path # NoPath)
         => LET o == session_orchestrators[s] IN
            /\ session_orchestrators'[s] = o
            /\ \A c \in Conns :
                 (hpc[c] # "hello" /\ hpc'[c] = "hello" /\ hsid'[c] = s)
                 => horch'[c] = o
            /\ (orchs'[o].project_path # orchs[o].project_path
                 => nextPath' = nextPath + 1)]_vars

\* C2 witness: a handler that came in as a reconnect sits in its receive
\* loop holding an orchestrator with a working-copy path, after an earlier
\* handler of the session has finished its cleanup.
C2_Witness ==
    \E c, d \in Conns :
        /\ hpc[c] = "recv" /\ hold[c] # NoConn
        /\ orchs[horch[c]].project_path # NoPath
        /\ hpc[d] = "done" /\ hsid[d] = hsid[c] /\ horch[d] = horch[c]

\* C3: the routing step starts the clone pipeline only for an orchestrator
\* whose project context has no working-copy path.
C3_NoCloneOncePathSet ==
    [][\A c \in Conns :
         (hpc[c] = "p_llm" /\ hpc'[c] = "p_pipe"
            /\ pfn'[c] = "clone_and_analyze_repo")
         => orchs[horch[c]].project_path = NoPath]_vars

\* C7: at most one process call per session is in flight at any time.
C7_OneProcessCallPerSession ==
    \A c, d \in Conns :
        (InProcess(c) /\ InProcess(d) /\ hsid[c] = hsid[d]) => c = d

\* C8: no send raises to its caller - neither the gateway send nor the
\* orchestrator's progress send - no pipeline is cut short by a send, and a
\* process call that returned has its handler back in the receive loop with
\* the reply its collaborators' results determine.
C8_SendErrorsSwallowed ==
    /\ \A s \in Sessions :
         /\ SafeSendOutcome(active_connections, wsState, s) # "raise"
         /\ SendProgressOutcome(active_connections, wsState, s) # "raise"
    /\ lastCall # NoCall =>
         /\ lastCall.outcome # "progress_error"
         /\ hpc[lastCall.conn] = "recv"
         /\ lastCall.reply = ReplyType(lastCall.outcome)

\* C8 witness: a pipeline ran to its successful end although the transport
\* of the handler was lost on the way and the reply could not be delivered.
C8_Witness ==
    /\ lastCall.outcome \in {"analysis_done", "deployed"}
    /\ lastCall.ws = 0
    /\ wsState[lastCall.conn] = "lost"

C10_OrchestratorEntryRetained ==
    \A c \in Conns :
        horch[c] # 0 =>
            /\ session_orchestrators[hsid[c]] = horch[c]
            /\ horch[c] \in 1..Len(orchs)

\* C10 witness: a handler has finished its disconnect cleanup, the session
\* has no transport binding left, and its orchestrator is still registered.
C10_Witness ==
    \E c \in Conns :
        /\ hpc[c] = "done" /\ horch[c] # 0
        /\ ~Registered(active_connections, hsid[c])
        /\ HasOrchestrator(session_orchestrators, hsid[c])

\* handler d has installed its transport and the transport is live
Live(d) ==
    /\ wsState[d] = "open"
    /\ hpc[d] \in {"hello", "recv", "p_llm", "p_pipe"}

C29_RoutingReachesHandler ==
    /\ lastCall.fn \in FunctionNames \ {"unknown"} =>
          lastCall.outcome # "handler_type_error"
    /\ lastCall.fn = "unknown" =>
          /\ lastCall.outcome \in {"unknown_function", "tool_error"}
          /\ lastCall.reply = "error"

\* C30: a send to a session never raises; it fails as "unknown_session"
\* exactly when the session has no binding, as "not_connected" when the
\* bound transport is not in the connected state, as "closed" when the close
\* message has been sent on it; and a step takes a session's binding away
\* only as a handler's cleanup or as a send that found the transport closed,
\* in which case no other session's binding is touched.
C30_OnlyClosedEvicts ==
    [][\A s \in Sessions :
         LET o == SafeSendOutcome(active_connections, wsState, s)
             after == SafeSendRegistry(active_connections, wsState, s)
         IN
         /\ o \in {"sent", "unknown_session", "not_connected", "closed", "error"}
         /\ (o = "unknown_session") <=> ~Registered(active_connections, s)
         /\ o = "closed" => after = Evict(active_connections, s)
         /\ o # "closed" => after = active_connections
         /\ (Registered(active_connections, s) /\ ~Registered(active_connections', s))
              => \/ \E c \in Conns : /\ hsid[c] = s
                                     /\ hpc[c] \in {"cleanup", "cleanup_wait"}
                                     /\ hpc'[c] = "done"
                 \/ /\ o = "closed"
                    /\ \A t \in Sessions \ {s} :
                         active_connections'[t] = active_connections[t]]_vars

\* C30 witness: a handler in a pipeline whose transport a reconnect has
\* closed has lost its session's binding to a send, before any handler of
\* the session reached its cleanup and before the reconnect was installed.
C30_Witness ==
    \E c \in Conns :
        /\ hpc[c] = "p_pipe"
        /\ wsState[c] = "srvclosed"
        /\ ~Registered(active_connections, hsid[c])
        /\ \A d \in Conns : hsid[d] = hsid[c] =>
              hpc[d] \in {"p_pipe", "p_llm", "install"}


(***************************************************************************)
(* SpecEnv: the env_vars_uploaded frame (app.py 366-411) and the use the   *)
(* deploy handler makes of the stored entries (orchestrator.py 752-755,    *)
(* 873-924), run twice in lock step on inputs that differ only in the      *)
(* values of the entries flagged secret.  `emitted` collects, per run,     *)
(* every frame sent to the client and every line printed or recorded.      *)
(***************************************************************************)
\* entries one upload may carry
MaxVars == 2
\* uploads and deploy calls followed
MaxUploads == 1
MaxEnvDeploys == 1

Runs == 1..2
EnvKeys == {"K1", "K2"}
EnvValues == {"v1", "v2"}
EnvEntry == [key : EnvKeys, value : EnvValues, isSecret : BOOLEAN]
Uploads == UNION {[1..n -> EnvEntry] : n \in 1..MaxVars}

\* two uploads that differ only in the values of secret-flagged entries
LowEquivalent(u, w) ==
    /\ Len(u) = Len(w)
    /\ \A i \in 1..Len(u) :
         /\ u[i].key = w[i].key
         /\ u[i].isSecret = w[i].isSecret
         /\ ~u[i].isSecret => u[i].value = w[i].value

\* session_env_vars[var['key']] = {'value': .., 'isSecret': ..}: a dict keeps
\* the position of a key it already has
Put(d, e) ==
    IF \E i \in 1..Len(d) : d[i].key = e.key
    THEN [i \in 1..Len(d) |-> IF d[i].key = e.key THEN e ELSE d[i]]
    ELSE Append(d, e)

RECURSIVE StoreAll(_, _)
StoreAll(d, variables) ==
    IF variables = << >> THEN d
    ELSE StoreAll(Put(d, Head(variables)), Tail(variables))

Line(kind, data) == [kind |-> kind, data |-> data]

\* a confirmation that would list each entry with its value
ConfirmationEntryWithValue(e) == <<e.key, e.value>>

\* one line of env_list (app.py 384-387): the key, and the lock for a secret
ConfirmationEntry(e) == <<e.key, e.isSecret>>

\* the env_vars_confirmed frame (app.py 389-409)
ConfirmationFrame(d, count) ==
    Line("frame:message",
         <<[i \in 1..Len(d) |-> ConfirmationEntry(d[i])], count,
           Cardinality({i \in 1..Len(d) : d[i].isSecret})>>)

\* what handling one upload emits: two log lines and the confirmation
UploadEmits(d, count) ==
    <<Line("log:received", <<count>>), Line("log:stored", <<count>>),
      ConfirmationFrame(d, count)>>

\* lines 873-880: entries given by the model win; otherwise the stored
\* entries are used, flattened to key and value
DeployEnvVars(args_env, d) ==
    IF args_env = << >> /\ d # << >>
    THEN [i \in 1..Len(d) |-> [key |-> d[i].key, value |-> d[i].value]]
    ELSE args_env

\* security.validate_env_vars: the issues it reports, by the names it objects
\* to
EnvIssues(env, bad) ==
    SelectSeq([i \in 1..Len(env) |-> env[i].key], LAMBDA k : k \in bad)

\* what the deploy handler emits about its env vars: the function-call log
\* line with the model's arguments, the count of stored entries when they
\* are used, and the recorded validation issues
DeployEmits(args_env, d, bad) ==
    LET env == DeployEnvVars(args_env, d) IN
    <<Line("log:function_call", <<"deploy_to_cloudrun", args_env>>)>>
    \o (IF args_env = << >> /\ d # << >>
        THEN <<Line("log:using_context_env_vars", <<Len(d)>>)>> ELSE << >>)
    \o (IF env # << >> /\ EnvIssues(env, bad) # << >>
        THEN <<Line("record_error", EnvIssues(env, bad))>> ELSE << >>)

CountOf(kind) ==
    Cardinality({i \in 1..Len(emitted[1]) : emitted[1][i].kind = kind})

EvInit ==
    /\ epc = "idle"
    /\ session_env_vars = [r \in Runs |-> << >>]
    /\ emitted = [r \in Runs |-> << >>]

\* an env_vars_uploaded frame arrives: u in the first run, w in the second
EnvVarsUploaded(u, w, count) ==
    /\ epc = "idle"
    /\ CountOf("log:stored") < MaxUploads
    /\ LowEquivalent(u, w)
    /\ count \in {Len(u), 0}
    /\ LET var == [r \in Runs |-> IF r = 1 THEN u ELSE w]
           d == [r \in Runs |-> StoreAll(session_env_vars[r], var[r])]
       IN /\ session_env_vars' = d
          /\ emitted' = [r \in Runs |-> emitted[r] \o UploadEmits(d[r], count)]
    /\ UNCHANGED <<epc, outsideEnv>>

\* the model calls deploy_to_cloudrun, with or without env_vars of its own
DeployEnv(args_env, bad) ==
    /\ epc = "idle"
    /\ CountOf("log:function_call") < MaxEnvDeploys
    /\ emitted' = [r \in Runs |->
                     emitted[r] \o DeployEmits(args_env, session_env_vars[r], bad)]
    /\ UNCHANGED <<epc, session_env_vars, outsideEnv>>

EnvNext ==
    \/ \E u, w \in Uploads, count \in 0..MaxVars : EnvVarsUploaded(u, w, count)
    \/ \E args_env \in {<< >>, <<[key |-> "K1", value |-> "v1"]>>},
          bad \in SUBSET EnvKeys : DeployEnv(args_env, bad)

InitEnv ==
    /\ GwInit /\ StIdle /\ DpIdle /\ BrIdle
    /\ EvInit /\ HcIdle /\ SnIdle /\ AnIdle /\ ClIdle /\ RestIdle

SpecEnv == InitEnv /\ [][EnvNext]_vars

\* C11: two runs that differ only in the values of secret-flagged env vars
\* emit the same frames and the same log lines.
C11_SecretValuesNotEmitted == emitted[1] = emitted[2]

\* C11 witness: the two runs hold different values for a secret entry, the
\* confirmation frame went out and the deploy handler used the stored entries.
C11_Witness ==
    /\ epc = "idle"
    /\ \E i \in 1..Len(session_env_vars[1]) :
         /\ session_env_vars[1][i].isSecret
         /\ session_env_vars[1][i].value # session_env_vars[2][i].value
    /\ CountOf("frame:message") = 1
    /\ CountOf("log:using_context_env_vars") = 1

(***************************************************************************)
(* SpecHealth: the health verification of the deploy pipeline -            *)
(* HealthCheckService.wait_for_service_ready as the deploy handler calls   *)
(* it (orchestrator.py 1142-1147), probe by probe, and the handler's       *)
(* verdict on the result.                                                  *)
(***************************************************************************)
\* HealthCheckService(timeout=30, max_retries=5)
HealthRetries == 5

\* expected_status_codes when the caller passes none (health_check.py 81-82)
ExpectedStatusCodes == {200, 204, 301, 302}

\* what one probe can observe; 0 stands for no response (timeout, connection
\* error)
StatusCodes == {0, 200, 204, 302, 401, 404, 500, 503}

\* _perform_health_check: `success = response.status in expected_status_codes`
ProbeSuccess(status) == status \in ExpectedStatusCodes

HcInit ==
    /\ vpc = "probing"
    /\ probe_log = << >>
    /\ health_success = FALSE
    /\ health_waits = << >>
    /\ health_result = NoHealthResult

\* the default retry_delay of HealthCheckService.__init__, in seconds
retry_delay == 2

\* a backoff that would grow by retry_delay per attempt
ProbeDelayLinear(n) == retry_delay * n

\* line 99: the sleep before attempt n (counted from 0), for n > 0
ProbeDelay(n) == retry_delay * 2^(n - 1)

\* one pass of the retry loop (health_check.py 96-137): every pass but the
\* first sleeps first; a successful probe returns its result at once, the
\* last failed one ends the loop, and the last result is returned with the
\* summary of lines 140-152 as its error
Probe(status) ==
    /\ vpc = "probing"
    /\ Len(probe_log) < HealthRetries
    /\ health_waits' = IF Len(probe_log) > 0
                       THEN Append(health_waits, ProbeDelay(Len(probe_log)))
                       ELSE health_waits
    /\ probe_log' = Append(probe_log, status)
    /\ health_success' = ProbeSuccess(status)
    /\ IF ProbeSuccess(status)
       THEN /\ vpc' = "returned"
            /\ health_result' = [status_code |-> status, error |-> "none"]
       ELSE IF Len(probe_log) + 1 = HealthRetries
       THEN /\ vpc' = "returned"
            /\ health_result' = [status_code |-> status, error |-> "summary"]
       ELSE /\ vpc' = "probing"
            /\ UNCHANGED health_result
    /\ UNCHANGED outsideHealth

\* orchestrator.py 1149-1197: a failed result is answered with a warning
HealthVerdict ==
    /\ vpc = "returned"
    /\ vpc' = IF health_success THEN "deployment_complete" ELSE "warning"
    /\ UNCHANGED <<probe_log, health_success, health_waits, health_result,
                   outsideHealth>>

HealthNext ==
    \/ \E status \in StatusCodes : Probe(status)
    \/ HealthVerdict

InitHealth ==
    /\ GwInit /\ StIdle /\ DpIdle /\ BrIdle
    /\ EvIdle /\ HcInit /\ SnIdle /\ AnIdle /\ ClIdle /\ RestIdle

SpecHealth == InitHealth /\ [][HealthNext]_vars

\* C34: the verification makes at most 5 probes, sleeps 2 s, 4 s, 8 s and
\* 16 s between consecutive probes, makes no probe after a successful one,
\* and once it has returned either the last probe succeeded or all 5 probes
\* failed and the result is a failure that carries the status of the last
\* probe and the error summary.
C34_VerifierTerminates ==
    /\ Len(probe_log) <= 5
    /\ Len(health_waits) = IF probe_log = << >> THEN 0 ELSE Len(probe_log) - 1
    /\ \A i \in 1..Len(health_waits) : health_waits[i] = 2^i
    /\ \A i \in 1..Len(probe_log) :
          probe_log[i] \in {200, 204, 301, 302} =>
             i = Len(probe_log) /\ vpc # "probing"
    /\ vpc \in {"returned", "deployment_complete", "warning"} =>
          LET last == probe_log[Len(probe_log)] IN
          IF last \in {200, 204, 301, 302}
          THEN health_success /\ health_result.status_code = last
          ELSE /\ Len(probe_log) = 5
               /\ ~health_success
               /\ health_result = [status_code |-> last, error |-> "summary"]

\* C34 witness: five probes failed, with all four waits between them, and
\* the failure was returned.
C34_Witness ==
    /\ vpc = "returned"
    /\ Len(probe_log) = 5
    /\ health_waits = <<2, 4, 8, 16>>
    /\ ~health_success
    /\ health_result.error = "summary"

\* C12: once the verification has returned, a probe that saw a status code
\* below 500 means the service was classified healthy.
C12_HealthyBelow500 ==
    (vpc \in {"returned", "deployment_complete", "warning"}
       /\ \E i \in 1..Len(probe_log) : probe_log[i] # 0 /\ probe_log[i] < 500)
    => (health_success /\ vpc # "warning")

(***************************************************************************)
(* SpecName: the service name the deploy handler derives when the model    *)
(* gives none (orchestrator.py 861-871).  A string is a sequence of        *)
(* tokens: single characters, ".git" (the four characters, which           *)
(* str.replace removes wherever they stand), and "a{62}", a run of 62      *)
(* lowercase letters that makes names longer than 63 characters            *)
(* reachable.                                                              *)
(***************************************************************************)
\* tokens in the repository name X
MaxNameTokens == 3

NameTokens == {"a", "B", "_", "-", "7", ".", ".git", "a{62}"}
RepoNames == UNION {[1..n -> NameTokens] : n \in 0..MaxNameTokens}

TokenLen(c) == IF c = "a{62}" THEN 62 ELSE IF c = ".git" THEN 4 ELSE 1

RECURSIVE StrLen(_)
StrLen(s) == IF s = << >> THEN 0 ELSE TokenLen(Head(s)) + StrLen(Tail(s))

\* str.replace('.git', '')
RemoveDotGit(s) == SelectSeq(s, LAMBDA c : c # ".git")

\* a replace that would leave underscores alone
HyphenateKept(s) == s

\* str.replace('_', '-')
Hyphenate(s) == [i \in 1..Len(s) |-> IF s[i] = "_" THEN "-" ELSE s[i]]

\* str.lower()
Lower(s) == [i \in 1..Len(s) |-> IF s[i] = "B" THEN "b" ELSE s[i]]

\* line 867, applied to the last path segment
RepoNameOf(segment) == Lower(Hyphenate(RemoveDotGit(segment)))

SnInit ==
    /\ npc = "start"
    /\ repo_url \in {x \o <<".git">> : x \in RepoNames} \cup {<< >>}
    /\ service_name = << >>

\* lines 862-871; without a repo_url in the context the name is a fixed one
DeriveServiceName ==
    /\ npc = "start"
    /\ service_name' = IF repo_url # << >> THEN RepoNameOf(repo_url)
                       ELSE <<"servergem-app">>
    /\ npc' = "derived"
    /\ UNCHANGED <<repo_url, outsideName>>

NameNext == DeriveServiceName

InitName ==
    /\ GwInit /\ StIdle /\ DpIdle /\ BrIdle
    /\ EvIdle /\ HcIdle /\ SnInit /\ AnIdle /\ ClIdle /\ RestIdle

SpecName == InitName /\ [][NameNext]_vars

\* the name X of a last path segment X.git
XOf(segment) == SubSeq(segment, 1, Len(segment) - 1)

LowerLetters == {"a", "b", "a{62}"}
Letters == LowerLetters \cup {"B"}
Digits == {"7"}

\* lowercase(hyphenate(X)), character by character
ExpectedName(x) ==
    [i \in 1..Len(x) |-> CASE x[i] = "_" -> "-"
                            [] x[i] = "B" -> "b"
                            [] OTHER      -> x[i]]

\* the platform's naming rules
ValidServiceName(s) ==
    /\ s # << >>
    /\ \A i \in 1..Len(s) : s[i] \in LowerLetters \cup Digits \cup {"-"}
    /\ s[1] \in LowerLetters
    /\ StrLen(s) <= 63

\* X has letters, digits, hyphens and underscores only, starts with a letter
\* and is at most 63 characters long
PlainRepoName(x) ==
    /\ x # << >>
    /\ \A i \in 1..Len(x) : x[i] \in Letters \cup Digits \cup {"-", "_"}
    /\ x[1] \in Letters
    /\ StrLen(x) <= 63

\* C13 (as claimed): for every last path segment X.git the derived name is
\* lowercase(hyphenate(X)) and satisfies the naming rules.
C13_DerivedNameValid ==
    (npc = "derived" /\ repo_url # << >>) =>
        /\ service_name = ExpectedName(XOf(repo_url))
        /\ ValidServiceName(service_name)

\* C13 (amended): the same for every X made of letters, digits, hyphens and
\* underscores that starts with a letter and has at most 63 characters.
C13_DerivedNameValidForPlainNames ==
    (npc = "derived" /\ repo_url # << >> /\ PlainRepoName(XOf(repo_url))) =>
        /\ service_name = ExpectedName(XOf(repo_url))
        /\ ValidServiceName(service_name)

\* C13 witness: a name with an uppercase letter and an underscore was derived.
C13_Witness ==
    /\ npc = "derived"
    /\ repo_url = <<"B", "_", "a", ".git">>
    /\ service_name = <<"b", "-", "a">>

(***************************************************************************)
(* SpecAnalyzer: one analyze_project call of the code analyzer             *)
(* (agents/code_analyzer.py): the path check, the directory scan, the      *)
(* model's classification, the backup model's after a quota error, and     *)
(* the static fallback.                                                    *)
(***************************************************************************)
\* the manifests _fallback_analysis looks for in config_files
Manifests == {"package.json", "requirements.txt", "go.mod"}

\* what a model call gives: a JSON object, no text, text that json.loads
\* rejects, an exception, or a quota exception
ModelResponses == {"json", "empty", "unparseable", "error", "quota"}

\* a parsed model answer, returned as it is (lines 119-140, 193-214)
ModelAnalysis == [kind |-> "analysis", language |-> "model", warnings |-> FALSE]

\* _fallback_analysis, lines 327-377
FallbackAnalysis(config_files) ==
    [kind     |-> "analysis",
     language |-> IF "package.json" \in config_files THEN "nodejs"
                  ELSE IF "requirements.txt" \in config_files THEN "python"
                  ELSE IF "go.mod" \in config_files THEN "golang"
                  ELSE "unknown",
     warnings |-> TRUE]

AnInit ==
    /\ apc = "start"
    /\ analyzer \in [use_vertex_ai : BOOLEAN, gemini_api_key : BOOLEAN]
    /\ file_structure = {}
    /\ response = "none"
    /\ analysis = NoAnalysis

\* lines 48-60: a path that does not exist is returned as an error dict
AnalyzeProject(exists) ==
    /\ apc = "start"
    /\ IF exists
       THEN /\ apc' = "scan"
            /\ UNCHANGED analysis
       ELSE /\ apc' = "returned"
            /\ analysis' = [kind |-> "error", language |-> "none",
                            warnings |-> FALSE]
    /\ UNCHANGED <<analyzer, file_structure, response, outsideAnalyzer>>

\* lines 62-88: _scan_directory walks the working copy outside any try
\* block, so an OSError of the walk leaves analyze_project; the prompt
\* builder reads the config files under its own try/except
ScanDirectory(config_files, io_error) ==
    /\ apc = "scan"
    /\ IF io_error
       THEN /\ apc' = "raised"
            /\ UNCHANGED file_structure
       ELSE /\ apc' = "classify"
            /\ file_structure' = config_files
    /\ UNCHANGED <<analyzer, response, analysis, outsideAnalyzer>>

\* lines 90-156 and 220-221: the model's answer is returned, or the static
\* fallback is, or a quota error sends the call to the backup model
Classify(r) ==
    /\ apc = "classify"
    /\ response' = r
    /\ IF r = "json"
       THEN /\ analysis' = ModelAnalysis
            /\ apc' = "returned"
       ELSE IF r = "quota" /\ analyzer.use_vertex_ai /\ analyzer.gemini_api_key
       THEN /\ apc' = "backup"
            /\ UNCHANGED analysis
       ELSE /\ analysis' = FallbackAnalysis(file_structure)
            /\ apc' = "returned"
    /\ UNCHANGED <<analyzer, file_structure, outsideAnalyzer>>

\* lines 158-221: the backup model; the analyzer switches to it as soon as
\* it has answered, whatever the answer is worth
BackupClassify(r) ==
    /\ apc = "backup"
    /\ response' = r
    /\ analyzer' = IF r \in {"error", "quota"} THEN analyzer
                   ELSE [analyzer EXCEPT !.use_vertex_ai = FALSE]
    /\ analysis' = IF r = "json" THEN ModelAnalysis
                   ELSE FallbackAnalysis(file_structure)
    /\ apc' = "returned"
    /\ UNCHANGED <<file_structure, outsideAnalyzer>>

AnalyzerNext ==
    \/ \E exists \in BOOLEAN : AnalyzeProject(exists)
    \/ \E config_files \in SUBSET Manifests, io_error \in BOOLEAN :
         ScanDirectory(config_files, io_error)
    \/ \E r \in ModelResponses : Classify(r)
    \/ \E r \in ModelResponses : BackupClassify(r)

InitAnalyzer ==
    /\ GwInit /\ StIdle /\ DpIdle /\ BrIdle
    /\ EvIdle /\ HcIdle /\ SnIdle /\ AnInit /\ ClIdle /\ RestIdle

SpecAnalyzer == InitAnalyzer /\ [][AnalyzerNext]_vars

\* C20: analyze_project never raises to its caller, and whenever the
\* classification by the model failed it returns a well-formed analysis from
\* the static fallback that carries a warning, with language unknown when no
\* manifest was recognised.
C20_AnalyzerNeverRaises ==
    /\ apc # "raised"
    /\ (apc = "returned" /\ response \in ModelResponses \ {"json"}) =>
          /\ analysis.kind = "analysis"
          /\ analysis.warnings
          /\ file_structure \cap Manifests = {} => analysis.language = "unknown"

(***************************************************************************)
(* SpecCloud: the container builds and Cloud Run deployments of            *)
(* services/gcloud_service.py: the retry strategy, build_image and its     *)
(* internal implementation, and deploy_to_cloudrun with the Cloud Run API  *)
(* calls it makes.                                                         *)
(***************************************************************************)
\* RetryStrategy(max_retries=3) of GCloudService.__init__ (line 96)
max_retries == 3
\* the default base_delay of RetryStrategy.__init__ (line 52), in seconds
base_delay == 1

\* what the cloud answers to one attempt of an operation: success, an error
\* that would pass on a later attempt (a timeout, a 503), or one that would
\* not (a bad Dockerfile, permission denied, an invalid service name)
CloudOutcomes == {"ok", "transient", "permanent"}

\* the answers to the consecutive attempts of one operation, should they be
\* made
OutcomeSeqs == [1..max_retries -> CloudOutcomes]

\* the service names the deploy handler passes
ServiceNames == {"app", "my_app"}

\* deployment_id[:8] of "deploy-" followed by eight hex digits (orchestrator
\* lines 890 and 1093): "deploy-" and the first digit of a fresh uuid
UserIds == {"deploy-a", "deploy-b"}

\* the API call of deploy_to_cloudrun that fails when its attempt does: the
\* GET, the create or update, or the wait for the returned operation
Phases == {"get", "mutate", "wait"}

\* lines 56-70: func is awaited up to max_retries times; any exception is
\* caught and, except after the last attempt, followed by a sleep of
\* base_delay * 2^n after attempt n (from 0); a returned value ends the loop
RECURSIVE Execute(_, _, _)
Execute(func, n, delays) ==
    IF func[n + 1] # "raise"
    THEN [attempts |-> n + 1, delays |-> delays, result |-> func[n + 1]]
    ELSE IF n < max_retries - 1
    THEN Execute(func, n + 1, Append(delays, base_delay * 2^n))
    ELSE [attempts |-> n + 1, delays |-> delays, result |-> "raise"]

\* a build whose internal implementation lets its exceptions out
BuildImageInternalRaising(outcome) ==
    IF outcome = "ok" THEN "success" ELSE "raise"

\* _build_image_internal, lines 404-606: the whole body is inside one
\* try/except Exception that returns a failure dict, so a failed attempt is
\* a returned value
BuildImageInternal(outcome) ==
    IF outcome = "ok" THEN "success" ELSE "failure"

\* lines 630-631: f"{user_id}-{service_name}".lower().replace('_', '-'),
\* over the names of the model (none of them reaches the 63-character cut)
UniqueServiceName(user_id, name) ==
    <<user_id, IF name = "my_app" THEN "my-app" ELSE name>>

ClInit ==
    /\ cpc = "ready"
    /\ services = {}
    /\ cloud_ops = << >>

\* build_image, lines 355-402: _build_image_internal under
\* retry_strategy.execute; an exception that leaves the strategy becomes a
\* failure dict
BuildImage(outcomes) ==
    /\ cpc = "ready"
    /\ Len(cloud_ops) < MaxCloudOps
    /\ LET r == Execute([i \in 1..max_retries |->
                            BuildImageInternal(outcomes[i])], 0, << >>)
       IN cloud_ops' = Append(cloud_ops,
              [stage |-> "build", service_name |-> "none",
               user_id |-> "none", outcomes |-> outcomes,
               attempts |-> r.attempts, delays |-> r.delays,
               success |-> r.result = "success",
               found |-> "none", api |-> << >>,
               target |-> "none", url |-> "none"])
    /\ UNCHANGED <<cpc, services, outsideCloud>>

\* deploy_to_cloudrun, lines 608-790: called directly, not through the retry
\* strategy. It GETs the service, updates it when the GET answers and
\* creates it on NotFound (695-718), then waits for the operation; any
\* exception is turned into a failure dict (785-790). A service whose
\* create call was accepted exists, whatever the wait then reports. The url
\* of the result is https://<unique_service_name>.servergem.app (line 747).
DeployToCloudRun(name, user_id, outcomes, phase) ==
    /\ cpc = "ready"
    /\ Len(cloud_ops) < MaxCloudOps
    /\ LET unique == UniqueServiceName(user_id, name)
           ok     == outcomes[1] = "ok"
           found  == IF ~ok /\ phase = "get" THEN "error"
                     ELSE IF unique \in services THEN "found"
                     ELSE "notfound"
           api    == IF found = "error" THEN <<"get">>
                     ELSE IF found = "found" THEN <<"get", "update">>
                     ELSE <<"get", "create">>
       IN /\ services' = IF found = "notfound" /\ (ok \/ phase = "wait")
                         THEN services \cup {unique}
                         ELSE services
          /\ cloud_ops' = Append(cloud_ops,
                 [stage |-> "deploy", service_name |-> name,
                  user_id |-> user_id, outcomes |-> outcomes,
                  attempts |-> 1, delays |-> << >>,
                  success |-> ok, found |-> found, api |-> api,
                  target |-> unique,
                  url |-> IF ok THEN unique ELSE "none"])
    /\ UNCHANGED <<cpc, outsideCloud>>

CloudNext ==
    \/ \E outcomes \in OutcomeSeqs : BuildImage(outcomes)
    \/ \E name \in ServiceNames, user_id \in UserIds,
          outcomes \in OutcomeSeqs, phase \in Phases :
         DeployToCloudRun(name, user_id, outcomes, phase)

InitCloud ==
    /\ GwInit /\ StIdle /\ DpIdle /\ BrIdle
    /\ EvIdle /\ HcIdle /\ SnIdle /\ AnIdle /\ ClInit /\ RestIdle

SpecCloud == InitCloud /\ [][CloudNext]_vars

Calls(op, call) == \E k \in 1..Len(op.api) : op.api[k] = call

\* C24: cloud-deployment GETs the service, calls create only when the GET
\* reported not-found and update only when it found the service, and of two
\* deployments to the same service name the second never creates the
\* service the first one created.
C24_CreateOnce ==
    /\ \A i \in 1..Len(cloud_ops) :
          cloud_ops[i].stage = "deploy" =>
             /\ cloud_ops[i].api[1] = "get"
             /\ Calls(cloud_ops[i], "create") => cloud_ops[i].found = "notfound"
             /\ Calls(cloud_ops[i], "update") => cloud_ops[i].found = "found"
    /\ \A i, j \in 1..Len(cloud_ops) :
          (/\ i < j
           /\ cloud_ops[i].stage = "deploy" /\ cloud_ops[j].stage = "deploy"
           /\ cloud_ops[i].service_name = cloud_ops[j].service_name
           /\ cloud_ops[i].success /\ Calls(cloud_ops[i], "create"))
          => ~Calls(cloud_ops[j], "create")

\* C39: the service a deployment gets, creates or updates, and the URL it
\* reports, are determined by the derived service name alone: two
\* deployments of the same service name target the same service and the
\* second one updates it.
C39_TargetFromNameAlone ==
    \A i, j \in 1..Len(cloud_ops) :
       (/\ i < j
        /\ cloud_ops[i].stage = "deploy" /\ cloud_ops[j].stage = "deploy"
        /\ cloud_ops[i].service_name = cloud_ops[j].service_name)
       => /\ cloud_ops[i].target = cloud_ops[j].target
          /\ (cloud_ops[i].success /\ cloud_ops[j].success) =>
                /\ cloud_ops[i].url = cloud_ops[j].url
                /\ cloud_ops[j].api = <<"get", "update">>

\* C26: a build or a deployment whose attempt fails with a transient error
\* is attempted again under exponential backoff with base delay 1 s, up to 3
\* attempts in total, and a transient failure followed by a successful
\* attempt yields success.
C26_TransientRetried ==
    \A i \in 1..Len(cloud_ops) :
       LET op == cloud_ops[i] IN
       /\ op.attempts <= 3
       /\ (op.outcomes[1] = "transient" /\ op.outcomes[2] = "ok") =>
             /\ op.attempts = 2
             /\ op.delays = <<1>>
             /\ op.success
       /\ (\A k \in 1..max_retries : op.outcomes[k] = "transient") =>
             /\ op.attempts = 3
             /\ op.delays = <<1, 2>>
             /\ ~op.success

\* C27: a build or a deployment whose attempt fails with a non-transient
\* error fails at once: it was attempted exactly once, with no further
\* attempt and no backoff delay.
C27_PermanentFailsAtOnce ==
    \A i \in 1..Len(cloud_ops) :
       cloud_ops[i].outcomes[1] = "permanent" =>
          /\ cloud_ops[i].attempts = 1
          /\ cloud_ops[i].delays = << >>
          /\ ~cloud_ops[i].success

\* C27 witness: a build and a deployment have both met a non-transient
\* error and returned their failure after one attempt.
C27_Witness ==
    /\ \E i \in 1..Len(cloud_ops) :
          /\ cloud_ops[i].stage = "build"
          /\ cloud_ops[i].outcomes[1] = "permanent"
          /\ cloud_ops[i].attempts = 1 /\ ~cloud_ops[i].success
    /\ \E i \in 1..Len(cloud_ops) :
          /\ cloud_ops[i].stage = "deploy"
          /\ cloud_ops[i].outcomes[1] = "permanent"
          /\ cloud_ops[i].attempts = 1 /\ ~cloud_ops[i].success

(***************************************************************************)
(* SpecHeartbeat: one keep_alive_task (app.py 170-187) of a session, and   *)
(* what happens to the session's binding around it: the transport drops    *)
(* or is closed by the server, a handler's cleanup deletes the binding, a  *)
(* reconnect installs a new one, the task is cancelled.                    *)
(***************************************************************************)
\* the registry and the transports as safe_send_json sees them
HbConnections ==
    [s \in Sessions |->
       IF s = "s1" /\ hb_binding # "none"
       THEN [websocket |-> 1, keep_alive_task |-> 1] ELSE NoConn]
HbTransports == [c \in Conns |-> IF hb_binding = "none" THEN "new" ELSE hb_binding]

\* the task is created together with the binding (lines 292-300)
HbInit ==
    /\ hbpc = "check"
    /\ hb_binding = "open"
    /\ hb_pings = << >>

\* lines 176-181: the value safe_send_json returns is not looked at, and
\* safe_send_json raises nothing, so the loop goes round again
AfterPing(outcome) == "check"

\* line 172: `while session_id in active_connections`
KeepAliveCheck ==
    /\ hbpc = "check"
    /\ hbpc' = IF hb_binding # "none" THEN "sleep" ELSE "done"
    /\ UNCHANGED <<hb_binding, hb_pings, outsideHeartbeat>>

\* lines 174-181: the sleep of 30 s is over; if the session is registered a
\* ping goes out through safe_send_json, which evicts the binding of a
\* transport the server has closed
KeepAliveWake ==
    /\ hbpc = "sleep"
    /\ IF hb_binding = "none"
       THEN /\ hbpc' = "check"
            /\ UNCHANGED <<hb_binding, hb_pings>>
       ELSE LET outcome == SafeSendOutcome(HbConnections, HbTransports, "s1")
                after   == SafeSendRegistry(HbConnections, HbTransports, "s1")
            IN /\ Len(hb_pings) < MaxPings
               /\ hb_pings' = Append(hb_pings, outcome)
               /\ hb_binding' = IF Registered(after, "s1") THEN hb_binding
                                ELSE "none"
               /\ hbpc' = AfterPing(outcome)
    /\ UNCHANGED outsideHeartbeat

\* lines 182-184: the task is cancelled while it sleeps
KeepAliveCancelled ==
    /\ hbpc = "sleep"
    /\ hbpc' = "done"
    /\ UNCHANGED <<hb_binding, hb_pings, outsideHeartbeat>>

\* the client goes away, the client side is seen disconnected, or a
\* reconnecting handler closes the transport
TransportChange(to) ==
    /\ hb_binding \in {"open", "lost"}
    /\ to \in {"lost", "gone", "srvclosed"} \ {hb_binding}
    /\ hb_binding' = to
    /\ UNCHANGED <<hbpc, hb_pings, outsideHeartbeat>>

\* a handler's finally block deletes the binding (lines 515-529)
Unbind ==
    /\ hb_binding # "none"
    /\ hb_binding' = "none"
    /\ UNCHANGED <<hbpc, hb_pings, outsideHeartbeat>>

\* a handler installs a new transport for the session (lines 292-300)
Rebind ==
    /\ hb_binding # "open"
    /\ hb_binding' = "open"
    /\ UNCHANGED <<hbpc, hb_pings, outsideHeartbeat>>

HeartbeatNext ==
    \/ KeepAliveCheck
    \/ KeepAliveWake
    \/ KeepAliveCancelled
    \/ \E to \in {"lost", "gone", "srvclosed"} : TransportChange(to)
    \/ Unbind
    \/ Rebind

InitHeartbeat ==
    /\ GwInit /\ StIdle /\ DpIdle /\ BrIdle
    /\ EvIdle /\ HcIdle /\ SnIdle /\ AnIdle /\ ClIdle
    /\ HbInit /\ PgIdle /\ TnIdle

SpecHeartbeat == InitHeartbeat /\ [][HeartbeatNext]_vars

\* C31: the heartbeat loop sends a keep-alive frame only while the session
\* has a binding, never lets a send error out, and exits on a send error: a
\* keep-alive send that failed is the last one the task makes.
C31_HeartbeatExitsOnSendError ==
    /\ hbpc # "raised"
    /\ \A i \in 1..Len(hb_pings) :
          /\ hb_pings[i] # "unknown_session"
          /\ hb_pings[i] # "sent" => i = Len(hb_pings)

(***************************************************************************)
(* SpecProgress: process_message calls that overlap on one orchestrator    *)
(* instance, and the progress messages _send_progress_message sends for    *)
(* them.  The instance is either the orchestrator of a session, which the  *)
(* handlers of that session call (app.py 304-323, 463-468), or the         *)
(* module-level one, which POST /chat calls (app.py 59, 218-221).          *)
(***************************************************************************)
Owners == {"s1", "global"}

\* the arguments a caller passes: a handler passes its session id and
\* safe_send_json; POST /chat passes the session id of the request body and
\* no send function
Callers(owner) ==
    IF owner = "global"
    THEN [session_id : Sessions, safe_send : {"none"}]
    ELSE [session_id : {owner}, safe_send : {"safe_send_json"}]

PgInit ==
    /\ gpc = "on"
    /\ agent \in [owner : Owners, session_id : {NoSession}, safe_send : {"none"}]
    /\ pcalls = << >>
    /\ progress_sent = << >>

\* a helper that would send whatever the progress context holds
ProgressEnabledAlways(a) == TRUE

\* _send_progress_message, lines 704-706: nothing is sent without a send
\* function and a session id
ProgressEnabled(a) == a.safe_send # "none" /\ a.session_id # NoSession

\* _send_progress_message, lines 708-718: the message goes to
\* self.session_id through self.safe_send, as they are when it is called
ProgressMessage(a, k) ==
    IF ProgressEnabled(a)
    THEN <<[call |-> k, session_id |-> a.session_id, send |-> a.safe_send]>>
    ELSE << >>

\* process_message, lines 354-361: the session id and the send function are
\* stored and the first progress message is sent; the send inside it is the
\* first await of the call
ProcessMessage(args) ==
    /\ gpc = "on"
    /\ Len(pcalls) < MaxCalls
    /\ args \in Callers(agent.owner)
    /\ LET stored == [agent EXCEPT !.session_id = args.session_id,
                                   !.safe_send = args.safe_send]
       IN /\ agent' = stored
          /\ progress_sent' =
               progress_sent \o ProgressMessage(stored, Len(pcalls) + 1)
    /\ pcalls' = Append(pcalls, [session_id |-> args.session_id,
                                 safe_send |-> args.safe_send,
                                 state |-> "running", n |-> 0])
    /\ UNCHANGED <<gpc, outsideProgress>>

\* a later progress message of call k: a pipeline stage, a retry note
SendProgressMessage(k) ==
    /\ k \in 1..Len(pcalls)
    /\ pcalls[k].state = "running"
    /\ pcalls[k].n < MaxProgress
    /\ progress_sent' = progress_sent \o ProgressMessage(agent, k)
    /\ pcalls' = [pcalls EXCEPT ![k].n = @ + 1]
    /\ UNCHANGED <<gpc, agent, outsideProgress>>

\* call k returns its response
ProcessReturn(k) ==
    /\ k \in 1..Len(pcalls)
    /\ pcalls[k].state = "running"
    /\ pcalls' = [pcalls EXCEPT ![k].state = "returned"]
    /\ UNCHANGED <<gpc, agent, progress_sent, outsideProgress>>

ProgressNext ==
    \/ \E args \in [session_id : Sessions,
                    safe_send : {"none", "safe_send_json"}] :
         ProcessMessage(args)
    \/ \E k \in 1..MaxCalls : SendProgressMessage(k)
    \/ \E k \in 1..MaxCalls : ProcessReturn(k)

InitProgress ==
    /\ GwInit /\ StIdle /\ DpIdle /\ BrIdle
    /\ EvIdle /\ HcIdle /\ SnIdle /\ AnIdle /\ ClIdle
    /\ HbIdle /\ PgInit /\ TnIdle

SpecProgress == InitProgress /\ [][ProgressNext]_vars

\* C33: every progress message sent during a process call goes to the
\* session id of that call through the send function of that call.
C33_ProgressUsesOwnContext ==
    \A i \in 1..Len(progress_sent) :
       LET m == progress_sent[i] IN
       /\ m.session_id = pcalls[m.call].session_id
       /\ m.send = pcalls[m.call].safe_send

\* C33 witness: two calls overlap on one orchestrator, and the first has
\* sent a progress message after the second stored its context.
C33_Witness ==
    /\ Len(pcalls) = 2
    /\ pcalls[1].state = "running" /\ pcalls[2].state = "running"
    /\ \E i, j \in 1..Len(progress_sent) :
          /\ i < j
          /\ progress_sent[i].call = 2
          /\ progress_sent[j].call = 1

(***************************************************************************)
(* SpecTurn: one user message in process_message (orchestrator.py          *)
(* 379-455): the model's response, the loop over its parts, the routed     *)
(* function call, the function response sent back, and the return.         *)
(***************************************************************************)
\* a part of a model response: text, or a call of a function by name
PartKinds == FunctionNames \cup {"text"}

\* the responses the model may give: up to MaxParts parts
Responses == UNION {[1..n -> PartKinds] : n \in 0..MaxParts}

TnInit ==
    /\ tpc = "send"
    /\ parts = << >>
    /\ executed = << >>
    /\ tool_responses = << >>

\* lines 379-381: the user message is sent; an exception of the send ends
\* the call in the except branch (432-455)
TurnResponse(raised, ps) ==
    /\ tpc = "send"
    /\ IF raised
       THEN tpc' = "returned_error" /\ UNCHANGED parts
       ELSE tpc' = "scan" /\ parts' = ps
    /\ UNCHANGED <<executed, tool_responses, outsideTurn>>

\* lines 387-394: the loop over the parts; a text part is passed over, a
\* function call is routed to _handle_function_call.  parts holds the parts
\* the loop has not visited yet.
ScanPart ==
    /\ tpc = "scan"
    /\ parts # << >>
    /\ parts' = Tail(parts)
    /\ IF Head(parts) = "text"
       THEN UNCHANGED <<tpc, executed>>
       ELSE /\ executed' = Append(executed, Head(parts))
            /\ tpc' = "handler"
    /\ UNCHANGED <<tool_responses, outsideTurn>>

\* lines 421-428: no part was a function call; the text is returned
ScanEnd ==
    /\ tpc = "scan"
    /\ parts = << >>
    /\ tpc' = "returned"
    /\ UNCHANGED <<parts, executed, tool_responses, outsideTurn>>

\* _handle_function_call returns a dict, or raises into the except branch
HandlerReturn(raised) ==
    /\ tpc = "handler"
    /\ tpc' = IF raised THEN "returned_error" ELSE "tool_send"
    /\ UNCHANGED <<parts, executed, tool_responses, outsideTurn>>

\* a loop that would go on to the next part after the function response
AfterToolResponseContinue(final) ==
    IF final = "raise" THEN "returned_error" ELSE "scan"

\* lines 407-419: the text of the final response is extracted and the dict
\* is returned from inside the loop; a function call in the final response
\* is not looked at.  A send that failed on every attempt raises.
AfterToolResponse(final) ==
    IF final = "raise" THEN "returned_error" ELSE "returned"

\* lines 396-406: the function result goes back to the model, through
\* _retry_with_backoff; final is what comes back for it
ToolResponse(final, attempts) ==
    /\ tpc = "tool_send"
    /\ final = "raise" => attempts = ToolRetries
    /\ tool_responses' = Append(tool_responses,
                                [name |-> executed[Len(executed)],
                                 final |-> final, attempts |-> attempts])
    /\ tpc' = AfterToolResponse(final)
    /\ UNCHANGED <<parts, executed, outsideTurn>>

TurnNext ==
    \/ \E raised \in BOOLEAN, ps \in Responses : TurnResponse(raised, ps)
    \/ ScanPart
    \/ ScanEnd
    \/ \E raised \in BOOLEAN : HandlerReturn(raised)
    \/ \E final \in {"text", "function_call", "raise"},
          attempts \in 1..ToolRetries : ToolResponse(final, attempts)

InitTurn ==
    /\ GwInit /\ StIdle /\ DpIdle /\ BrIdle
    /\ EvIdle /\ HcIdle /\ SnIdle /\ AnIdle /\ ClIdle
    /\ HbIdle /\ PgIdle /\ TnInit

SpecTurn == InitTurn /\ [][TurnNext]_vars

\* C40: for one user message at most one function call is routed to a
\* handler and at most one function response is sent back to the model,
\* whatever the parts of the response and of the turn that follows.
C40_OneFunctionPerMessage ==
    /\ Len(executed) <= 1
    /\ Len(tool_responses) <= 1

\* C40 witness: the call has returned after one routed function and one
\* function response, although a later part of the response was a function
\* call too and the turn after the function response was one as well.
C40_Witness ==
    /\ tpc = "returned"
    /\ Len(executed) = 1
    /\ Len(tool_responses) = 1
    /\ tool_responses[1].final = "function_call"
    /\ \E i \in 1..Len(parts) : parts[i] # "text"

====
